---------------------------- MODULE Spec2Model ----------------------------
(***************************************************************************)
(* Model of the IoM TypeScript client core:                                *)
(*   - the response decoder        (src/src/utils/spite-handler.ts)        *)
(*   - the session scope           (src/src/session.ts)                    *)
(*   - the unified dispatcher      (src/src/client.node.ts)                *)
(*                                                                         *)
(* Conventions.                                                            *)
(*   An optional JavaScript value (null / undefined / absent field) is a   *)
(*   sequence of length 0 or 1: <<>> is absent, <<v>> is the value v.      *)
(*   A string whose content matters is a sequence of tokens, so that       *)
(*   "contains", "starts with" and concatenation are computed, not         *)
(*   assumed: "" is <<>>, "path required" is <<"path", "required">>.       *)
(***************************************************************************)
EXTENDS Integers, Sequences, FiniteSets, TLC

VARIABLES
    taskContext,   \* decoder: the Task Context handed to the entry points
    outGet,        \* decoder: outcome of getOutputFromTaskContext, <<>> before it ran
    outParse,      \* decoder: outcome of parseTaskContext, <<>> before it ran
    config,        \* dispatcher: GrpcClientConfig (defaultHeaders, timeout)
    calls,         \* per caller: the call it makes through a scope or the dispatcher
    heap,          \* registry: the session descriptor objects, by reference
    instances,     \* registry: the Session instances constructed so far
    sessions,      \* SessionManager.sessions: identifier -> Session instance
    sessionInfos,  \* SessionManager.sessionInfos: identifier -> descriptor object
    listing,       \* SessionManager.list() calls waiting for the remote session list
    observed,      \* registry: what the last read or call through a scope gave
    built,         \* construction: the GrpcClient constructed, and its first remote call
    removed,       \* registry, history: the identifiers removed since the last list()
                   \* began, while a list() is suspended, and not asked for or updated since
    logging        \* dispatcher with config.onLog: the hook, what it was given, the call

vars == <<taskContext, outGet, outParse, config, calls,
          heap, instances, sessions, sessionInfos, listing, observed, built, removed,
          logging>>

\* t occurs in s as a contiguous run of tokens
Contains(s, t) == \E i \in 0..(Len(s) - Len(t)) : SubSeq(s, i + 1, i + Len(t)) = t

None == <<>>
Some(v) == <<v>>
IsNone(o) == o = <<>>
IsSome(o) == o # <<>>
Val(o) == o[1]

(***************************************************************************)
(* Bounds of the model.                                                    *)
(***************************************************************************)
\* outer and inner codes range over 0..MaxCode; codes above the enums are the
\* "unrecognized integer" cases
MaxCode == 12

(***************************************************************************)
(* spite-handler.ts: the two enums.                                        *)
(***************************************************************************)
MaleficError_None == 0
MaleficError_Panic == 1
MaleficError_UnpackError == 2
MaleficError_Missbody == 3
MaleficError_ModuleError == 4
MaleficError_ModuleNotFound == 5
MaleficError_TaskError == 6
MaleficError_TaskNotFound == 7
MaleficError_TaskOperatorNotFound == 8
MaleficError_ExtensionNotFound == 9
MaleficError_UnexceptBody == 10

TaskError_None == 0
TaskError_OperatorError == 1
TaskError_NotExpectBody == 2
TaskError_FieldRequired == 3
TaskError_FieldLengthMismatch == 4
TaskError_FieldInvalid == 5
TaskError_TaskError == 6

\* template-literal rendering of a small number: `${n}`
NumStr(n) ==
    <<"0", "1", "2", "3", "4", "5", "6", "7", "8", "9", "10",
      "11", "12", "13", "14", "15", "16", "17", "18", "19", "20">>[n + 1]

\* new SpiteError(message, code?)
SpiteError(message, code) == [name |-> "SpiteError", message |-> message, code |-> code]

\* x || 0 on an optional number
OrZero(o) == IF IsNone(o) THEN 0 ELSE Val(o)

\* s || dflt on an optional string: undefined and "" are both falsy
OrText(o, dflt) == IF IsNone(o) \/ Val(o) = <<>> THEN dflt ELSE Val(o)

\* JSON.stringify(status): a field that is undefined is left out
JSONStatus(status) ==
    <<"{">>
    \o (IF IsSome(status.status) THEN <<"status:", NumStr(Val(status.status))>> ELSE <<>>)
    \o (IF IsSome(status.error) THEN <<"error:">> \o Val(status.error) ELSE <<>>)
    \o <<"}">>

\* handleTaskError whose messages are a fixed string, without the status's text
handleTaskError_FixedMessage(status) ==
    IF IsNone(status)
    THEN Some(SpiteError(<<"nil", "status", "or", "unknown", "error">>, None))
    ELSE LET statusCode == OrZero(Val(status).status)
         IN  IF statusCode = TaskError_None THEN None
             ELSE Some(SpiteError(<<"task", "error">>, Some(statusCode)))

\* handleTaskError without the check for an absent status
handleTaskError_NilIsNone(status) ==
    IF IsNone(status) THEN None
    ELSE LET statusCode == OrZero(Val(status).status)
             errorMsg == OrText(Val(status).error, <<"unknown", "error">>)
         IN  IF statusCode = TaskError_None THEN None
             ELSE Some(SpiteError(<<"task", "error:">> \o errorMsg, Some(statusCode)))

\* handleTaskError that reports the status None as a task error too
handleTaskError_NoneThrows(status) ==
    IF IsNone(status)
    THEN Some(SpiteError(<<"nil", "status", "or", "unknown", "error">>, None))
    ELSE LET statusCode == OrZero(Val(status).status)
             errorMsg == OrText(Val(status).error, <<"unknown", "error">>)
         IN  Some(SpiteError(<<"task", "error:">> \o errorMsg, Some(statusCode)))

\* handleTaskError(status): Some(error) or None for `null`
handleTaskError(status) ==
    IF IsNone(status)
    THEN Some(SpiteError(<<"nil", "status", "or", "unknown", "error">>, None))
    ELSE LET st == Val(status)
             statusCode == OrZero(st.status)
             errorMsg == OrText(st.error, <<"unknown", "error">>)
         IN  CASE statusCode = TaskError_None -> None
               [] statusCode \in { TaskError_OperatorError, TaskError_NotExpectBody,
                                   TaskError_FieldRequired, TaskError_FieldLengthMismatch,
                                   TaskError_FieldInvalid, TaskError_TaskError } ->
                      Some(SpiteError(<<"task", "error:">> \o errorMsg, Some(statusCode)))
               [] OTHER ->
                      Some(SpiteError(<<"unknown", "error:">> \o JSONStatus(st),
                                      Some(statusCode)))

\* the messages with `module miss body` mistyped as the message of ModuleError
MaleficMessage_Shared(errorCode) ==
    CASE errorCode = MaleficError_Panic -> <<"module", "Panic">>
      [] errorCode = MaleficError_UnpackError -> <<"module", "unpack", "error">>
      [] errorCode = MaleficError_Missbody -> <<"module", "error">>
      [] errorCode = MaleficError_ModuleError -> <<"module", "error">>
      [] errorCode = MaleficError_ModuleNotFound -> <<"module", "not", "found">>
      [] errorCode = MaleficError_TaskNotFound -> <<"task", "not", "found">>
      [] errorCode = MaleficError_TaskOperatorNotFound -> <<"task", "operator", "not", "found">>
      [] errorCode = MaleficError_ExtensionNotFound -> <<"extension", "not", "found">>
      [] errorCode = MaleficError_UnexceptBody -> <<"unexcept", "body">>
      [] OTHER -> <<"unknown", "Malefic", "error:", NumStr(errorCode)>>

\* the fixed message of each outer code other than None and TaskError
MaleficMessage(errorCode) ==
    CASE errorCode = MaleficError_Panic -> <<"module", "Panic">>
      [] errorCode = MaleficError_UnpackError -> <<"module", "unpack", "error">>
      [] errorCode = MaleficError_Missbody -> <<"module", "miss", "body">>
      [] errorCode = MaleficError_ModuleError -> <<"module", "error">>
      [] errorCode = MaleficError_ModuleNotFound -> <<"module", "not", "found">>
      [] errorCode = MaleficError_TaskNotFound -> <<"task", "not", "found">>
      [] errorCode = MaleficError_TaskOperatorNotFound -> <<"task", "operator", "not", "found">>
      [] errorCode = MaleficError_ExtensionNotFound -> <<"extension", "not", "found">>
      [] errorCode = MaleficError_UnexceptBody -> <<"unexcept", "body">>
      [] OTHER -> <<"unknown", "Malefic", "error:", NumStr(errorCode)>>

\* handleMaleficError(spite): Some(error) or None for `null`
handleMaleficError(spite) ==
    IF IsNone(spite)
    THEN Some(SpiteError(<<"nil", "spite">>, None))
    ELSE LET errorCode == OrZero(Val(spite).error)
         IN  CASE errorCode = MaleficError_None -> None
               [] errorCode = MaleficError_TaskError -> handleTaskError(Val(spite).status)
               [] OTHER -> Some(SpiteError(MaleficMessage(errorCode), Some(errorCode)))

\* extractResponse that ignores the tag of the body's union
extractResponse_AnyCase(spite) ==
    IF IsNone(spite) THEN None
    ELSE LET body == Val(spite).body
         IN  IF IsNone(body) THEN None ELSE Val(body).value

\* extractResponse(spite): the body's "response" variant or None
extractResponse(spite) ==
    IF IsNone(spite) THEN None
    ELSE LET body == Val(spite).body
         IN  IF IsNone(body) THEN None
             ELSE IF Val(body).case = "response" /\ IsSome(Val(body).value)
                  THEN Val(body).value
                  ELSE None

\* extractOutput(response)
extractOutput(response) ==
    IF IsNone(response) THEN <<>> ELSE OrText(Val(response).output, <<>>)

\* extractError(response)
extractError(response) ==
    IF IsNone(response) THEN <<>> ELSE OrText(Val(response).error, <<>>)

(***************************************************************************)
(* Outcome of a call of an entry point: it threw `err`, or it returned.    *)
(***************************************************************************)
NoError == SpiteError(<<>>, None)
Threw(err) == [threw |-> TRUE, err |-> err, output |-> <<>>, error |-> <<>>, response |-> None]
Returned(output, error, response) ==
    [threw |-> FALSE, err |-> NoError, output |-> output, error |-> error, response |-> response]

\* extractResponseFromTaskContext without the error check before the extraction
extractResponseFromTaskContext_NoCheck(tc) ==
    IF IsNone(tc) THEN Returned(<<>>, <<>>, None)
    ELSE Returned(<<>>, <<>>, extractResponse(Val(tc).spite))

\* extractResponseFromTaskContext(taskContext): throws, or returns Response | null
extractResponseFromTaskContext(tc) ==
    IF IsNone(tc) THEN Returned(<<>>, <<>>, None)
    ELSE LET spite == Val(tc).spite
         IN  IF IsNone(spite) THEN Returned(<<>>, <<>>, None)
             ELSE LET error == handleMaleficError(spite)
                  IN  IF IsSome(error) THEN Threw(Val(error))
                      ELSE Returned(<<>>, <<>>, extractResponse(spite))

\* getOutputFromTaskContext(taskContext): throws, or returns the output string
\* (kept in .output; .error and .response stay empty: the function returns a string)
getOutputFromTaskContext(tc) ==
    LET r == extractResponseFromTaskContext(tc)
    IN  IF r.threw THEN r ELSE Returned(extractOutput(r.response), <<>>, None)

\* parseTaskContext that throws the response's error string when it is not empty
parseTaskContext_ThrowsAppError(tc) ==
    IF IsNone(tc) THEN Threw(SpiteError(<<"nil", "task", "context">>, None))
    ELSE LET spite == Val(tc).spite
         IN  IF IsNone(spite)
             THEN Threw(SpiteError(<<"nil", "spite", "in", "task", "context">>, None))
             ELSE LET spiteError == handleMaleficError(spite)
                  IN  IF IsSome(spiteError) THEN Threw(Val(spiteError))
                      ELSE LET response == extractResponse(spite)
                           IN  IF extractError(response) # <<>>
                               THEN Threw(SpiteError(extractError(response), None))
                               ELSE Returned(extractOutput(response), <<>>, response)

\* parseTaskContext(taskContext): throws, or returns {output, error, response}
parseTaskContext(tc) ==
    IF IsNone(tc) THEN Threw(SpiteError(<<"nil", "task", "context">>, None))
    ELSE LET spite == Val(tc).spite
         IN  IF IsNone(spite)
             THEN Threw(SpiteError(<<"nil", "spite", "in", "task", "context">>, None))
             ELSE LET spiteError == handleMaleficError(spite)
                  IN  IF IsSome(spiteError) THEN Threw(Val(spiteError))
                      ELSE LET response == extractResponse(spite)
                           IN  Returned(extractOutput(response), extractError(response), response)

(***************************************************************************)
(* Header mappings.                                                        *)
(*   A plain object is a sequence of <<key, value>> pairs in insertion     *)
(*   order, keys distinct and case-sensitive.  A Headers instance matches  *)
(*   names without regard to case: it is a function from the lower-case    *)
(*   names to an optional value.                                           *)
(***************************************************************************)
\* at most MaxHeaders entries in a header object a caller writes
MaxHeaders == 2

LowerKeys == <<"session_id", "x-a">>
Lower(k) ==
    CASE k = "Session_ID" -> "session_id"
      [] k = "X-A" -> "x-a"
      [] OTHER -> k

\* obj[key] = value on a plain object: replaces in place, or appends
ObjSet(obj, key, value) ==
    IF \E i \in 1..Len(obj) : obj[i][1] = key
    THEN [i \in 1..Len(obj) |-> IF obj[i][1] = key THEN <<key, value>> ELSE obj[i]]
    ELSE Append(obj, <<key, value>>)

\* obj[key], None when the key is not there
ObjGet(obj, key) ==
    IF \E i \in 1..Len(obj) : obj[i][1] = key
    THEN Some((CHOOSE e \in {obj[i] : i \in 1..Len(obj)} : e[1] = key)[2])
    ELSE None

\* Object.assign(target, source)
RECURSIVE ObjAssign(_, _)
ObjAssign(target, source) ==
    IF source = <<>> THEN target
    ELSE ObjAssign(ObjSet(target, Head(source)[1], Head(source)[2]), Tail(source))

\* new Headers()
EmptyHeaders == [k \in {LowerKeys[i] : i \in 1..Len(LowerKeys)} |-> None]

\* headers.set(name, value)
HeadersSet(h, name, value) == [h EXCEPT ![Lower(name)] = Some(value)]

\* entries.forEach(([key, value]) => headers.set(key, value))
RECURSIVE HeadersSetAll(_, _)
HeadersSetAll(h, entries) ==
    IF entries = <<>> THEN h
    ELSE HeadersSetAll(HeadersSet(h, Head(entries)[1], Head(entries)[2]), Tail(entries))

\* the entries a Headers instance iterates, in name order
RECURSIVE HeadersEntriesFrom(_, _)
HeadersEntriesFrom(h, i) ==
    IF i > Len(LowerKeys) THEN <<>>
    ELSE (IF IsSome(h[LowerKeys[i]]) THEN << <<LowerKeys[i], Val(h[LowerKeys[i]])>> >> ELSE <<>>)
         \o HeadersEntriesFrom(h, i + 1)
HeadersEntries(h) == HeadersEntriesFrom(h, 1)

\* a header argument as the caller writes it: a plain object or a Headers instance
PlainInit(obj) == [isHeaders |-> FALSE, obj |-> obj, h |-> EmptyHeaders]
HeadersInit(h) == [isHeaders |-> TRUE, obj |-> <<>>, h |-> h]

\* Object.entries(x): the own enumerable properties; a Headers instance has none
ObjectEntries(init) == IF init.isHeaders THEN <<>> ELSE init.obj

(***************************************************************************)
(* Unified dispatcher (client.node.ts; the browser client is the same      *)
(* apart from createTransport).                                            *)
(***************************************************************************)
\* A property name is a sequence of tokens: "sync_ls" is <<"sync_", "ls">>,
\* "_op" is <<"_", "op">>.
StartsWith(prop, tok) == Len(prop) > 0 /\ prop[1] = tok

\* the operations of the two capability sets (PromiseClient of MaliceRPC and of
\* ListenerRPC): one name in each set only, one in both, one with a leading
\* underscore, one that is also the name of a member of the dispatcher, one
\* that is also the name of an accessor of a scope
MaliceMethods ==
    {<<"ls">>, <<"waitTaskFinish">>, <<"both">>, <<"_", "op">>, <<"createCallOptions">>,
     <<"sessionId">>}
ListenerMethods ==
    {<<"listen">>, <<"both">>}

\* `prop in target`: the fields and methods of class GrpcClient
OwnFunctions ==
    {<<"getMaliceClient">>, <<"getListenerClient">>, <<"createCallOptions">>,
     <<"mergeCallOptions">>, <<"createTransport">>, <<"log">>}
OwnFields == {<<"maliceClient">>, <<"listenerClient">>, <<"config">>}
InTarget(prop) == prop \in OwnFunctions \cup OwnFields

\* what reading a property of the dispatcher gives
Resolution(kind, set, name) == [kind |-> kind, set |-> set, name |-> name]
MethodNotFound(name) ==
    <<"Method">> \o name \o <<"not", "found", "on", "MaliceRPC", "or", "ListenerRPC">>

\* the Proxy get that gives undefined for a name of neither set
DispatcherGet_NoThrow(prop) ==
    IF InTarget(prop) \/ StartsWith(prop, "_")
    THEN Resolution(IF InTarget(prop) THEN "own" ELSE "undefined", "none", prop)
    ELSE IF prop \in MaliceMethods THEN Resolution("forward", "malice", prop)
    ELSE IF prop \in ListenerMethods THEN Resolution("forward", "listener", prop)
    ELSE Resolution("undefined", "none", prop)

\* the Proxy get that looks at the listener set before the operator set
DispatcherGet_ListenerFirst(prop) ==
    IF InTarget(prop) \/ StartsWith(prop, "_")
    THEN Resolution(IF InTarget(prop) THEN "own" ELSE "undefined", "none", prop)
    ELSE IF prop \in ListenerMethods THEN Resolution("forward", "listener", prop)
    ELSE IF prop \in MaliceMethods THEN Resolution("forward", "malice", prop)
    ELSE Resolution("throw", "none", prop)

\* the Proxy get that looks at the capability sets before the dispatcher itself
DispatcherGet_ForwardFirst(prop) ==
    IF prop \in MaliceMethods THEN Resolution("forward", "malice", prop)
    ELSE IF prop \in ListenerMethods THEN Resolution("forward", "listener", prop)
    ELSE IF InTarget(prop) \/ StartsWith(prop, "_")
    THEN Resolution(IF InTarget(prop) THEN "own" ELSE "undefined", "none", prop)
    ELSE Resolution("throw", "none", prop)

\* GrpcClient's Proxy get(target, prop)
DispatcherGet(prop) ==
    IF InTarget(prop) \/ StartsWith(prop, "_")
    THEN \* (target as any)[prop]: the member, or undefined
         Resolution(IF InTarget(prop) THEN "own" ELSE "undefined", "none", prop)
    ELSE IF prop \in MaliceMethods THEN Resolution("forward", "malice", prop)
    ELSE IF prop \in ListenerMethods THEN Resolution("forward", "listener", prop)
    ELSE Resolution("throw", "none", prop)

\* typeof method === 'function'
IsFunction(res) ==
    \/ res.kind = "forward"
    \/ res.kind = "own" /\ res.name \in OwnFunctions

\* call options: {headers?, timeoutMs?}
Options(headers, timeoutMs) == [headers |-> headers, timeoutMs |-> timeoutMs]
NoOptions == Options(None, None)

\* mergeCallOptions(callOptions) under configuration cfg
mergeCallOptions(cfg, callOptions) ==
    LET h0 == EmptyHeaders
        h1 == IF IsSome(cfg.defaultHeaders)
              THEN HeadersSetAll(h0, Val(cfg.defaultHeaders)) ELSE h0
        h2 == IF IsSome(callOptions.headers)
              THEN HeadersSetAll(h1, ObjectEntries(Val(callOptions.headers))) ELSE h1
        truthy(t) == IsSome(t) /\ Val(t) # 0
    IN  [headers |-> h2,
         timeoutMs |-> IF truthy(cfg.timeout) /\ ~truthy(callOptions.timeoutMs)
                       THEN cfg.timeout ELSE callOptions.timeoutMs]

\* one invocation of a capability set's method
Rpc(set, name, request, options) ==
    [set |-> set, name |-> name, request |-> request, options |-> options]

(***************************************************************************)
(* Construction of the dispatcher: new GrpcClient(config) of               *)
(* client.node.ts, and of the browser client of src/unnamed/part_001.      *)
(***************************************************************************)
\* AuthConfig, as far as createTransport reads it: host and port, and the TLS
\* material ca, cert and key
Auth(host, tls) == [host |-> host, tls |-> tls]
\* GrpcClientConfig, as far as createTransport reads it
TransportConfig(transport, baseUrl, auth) ==
    [transport |-> transport, baseUrl |-> baseUrl, auth |-> auth]

AuthRequired == "Auth configuration is required for native gRPC transport"
BaseUrlRequired == "baseUrl is required for gRPC-Web transport"
\* Buffer.from(undefined)
BufferTypeError == "TypeError [ERR_INVALID_ARG_TYPE]"

\* how a constructor ended: with an instance over a transport, or by throwing
Constructed(transport, baseUrl) ==
    [state |-> "constructed", transport |-> transport, baseUrl |-> baseUrl, err |-> ""]
ConstructThrew(err) ==
    [state |-> "threw", transport |-> "", baseUrl |-> None, err |-> err]

\* client.node.ts, createTransport(config)
createTransport(cfg) ==
    LET transportType == IF IsSome(cfg.transport) THEN Val(cfg.transport) ELSE "grpc-web"
    IN  IF transportType = "grpc"
        THEN IF IsNone(cfg.auth) THEN ConstructThrew(AuthRequired)
             ELSE IF ~Val(cfg.auth).tls THEN ConstructThrew(BufferTypeError)
             ELSE Constructed("grpc",
                              IF Val(cfg.auth).host THEN Some("https://host:port") ELSE None)
        ELSE IF IsNone(cfg.baseUrl) \/ cfg.baseUrl = Some("")
             THEN ConstructThrew(BaseUrlRequired)
             ELSE Constructed("grpc-web", cfg.baseUrl)

\* src/unnamed/part_001, createTransport(config): the base URL is handed to
\* createGrpcWebTransport as it is
createTransportWeb(cfg) == Constructed("grpc-web", cfg.baseUrl)

\* new GrpcClient(config) of the variant
NewGrpcClient(variant, cfg) ==
    LET made == IF variant = "node" THEN createTransport(cfg) ELSE createTransportWeb(cfg)
    IN  [variant |-> variant, cfg |-> cfg, state |-> made.state,
         transport |-> made.transport, baseUrl |-> made.baseUrl, err |-> made.err,
         call |-> "none"]
NotBuilt ==
    [variant |-> "", cfg |-> TransportConfig(None, None, None), state |-> "none",
     transport |-> "", baseUrl |-> None, err |-> "", call |-> "none"]

\* the first remote call on an instance: the transport builds the URL of the
\* method from its base URL when the request is made
FirstRemoteCall(client) ==
    [client EXCEPT !.call = IF IsNone(client.baseUrl) THEN "failed" ELSE "sent"]

(***************************************************************************)
(* Session scope (session.ts).                                             *)
(***************************************************************************)
\* options.timeoutMs || 60000
WaitTimeoutDefault == 60000

\* the scopes of the model: new Session(client, sessionId); the third one wraps
\* an absent client
Scopes ==
    << [sessionId |-> "s1", hasClient |-> TRUE],
       [sessionId |-> "s2", hasClient |-> TRUE],
       [sessionId |-> "s1", hasClient |-> FALSE] >>

\* a request: the caller's (told apart by tag), or the one of waitTaskFinish
Request(tag, taskId, sessionId) == [tag |-> tag, taskId |-> taskId, sessionId |-> sessionId]
\* a value a remote operation resolves to
Result(kind, hasTaskId, taskId, sessionId) ==
    [kind |-> kind, hasTaskId |-> hasTaskId, taskId |-> taskId, sessionId |-> sessionId]
NoResult == Result("none", FALSE, None, None)

\* how a call ended, as its caller sees it
Pending == [kind |-> "pending", val |-> NoResult, err |-> <<>>]
RetValue(v) == [kind |-> "value", val |-> v, err |-> <<>>]
RetThrow(err) == [kind |-> "throw", val |-> NoResult, err |-> err]
\* the value of a member of the dispatcher itself, or undefined
RetLocal(kind) == [kind |-> kind, val |-> NoResult, err |-> <<>>]
\* the value of an accessor of a scope: the descriptor object, the identifier
\* in it, or a closure that returns that identifier
RetAccessor(scope, prop) ==
    [kind |-> "accessor",
     val |-> Result(IF prop = <<"sessionInfo">> THEN "descriptor"
                    ELSE IF prop = <<"sessionId">> THEN "string" ELSE "closure",
                    FALSE, None, Some(scope.sessionId)),
     err |-> <<>>]

\* the callers that can have a call in flight
Callers == {"c1", "c2"}

IdleCall ==
    [pc |-> "idle", via |-> "none", sync |-> FALSE, scope |-> 0, prop |-> <<>>,
     request |-> Request("", None, None), options |-> NoOptions,
     headers |-> <<>>, lookups |-> <<>>, handed |-> <<>>, rpcs |-> <<>>,
     task |-> NoResult, waited |-> NoResult, failure |-> <<>>, ret |-> Pending,
     objects |-> [request |-> Request("", None, None), options |-> NoOptions,
                  headers |-> <<>>]]

\* what the scope hands to the dispatcher: a method name with its arguments
Handed(name, request, options) == [name |-> name, request |-> request, options |-> options]

NotInitialized(prop) ==
    <<"Session", "client", "is", "not", "initialized.", "Cannot", "access", "property">> \o prop

ReservedAccessors == {<<"sessionInfo">>, <<"sessionId">>, <<"getSessionId">>}

\* the header object without the session_id written last
SessionHeaders_CallerWins(sessionId, options) ==
    LET own == << <<"session_id", sessionId>> >>
    IN  IF IsNone(options.headers) THEN own
        ELSE IF Val(options.headers).isHeaders
             THEN ObjAssign(own, HeadersEntries(Val(options.headers).h))
             ELSE ObjAssign(own, Val(options.headers).obj)

\* the header mapping kept between invocations: a call writes its entries into
\* the mapping of the call that is in flight
SessionHeaders_Shared(sessionId, options) ==
    LET inFlight == {c \in Callers : calls[c].via = "session"
                                       /\ calls[c].pc \in {"phase1", "phase2"}}
        shared == IF inFlight = {} THEN <<>>
                  ELSE calls[CHOOSE c \in inFlight : TRUE].headers
        headers == IF IsNone(options.headers) THEN shared
                   ELSE IF Val(options.headers).isHeaders
                        THEN ObjAssign(shared, HeadersEntries(Val(options.headers).h))
                        ELSE ObjAssign(shared, Val(options.headers).obj)
    IN  ObjSet(headers, "session_id", sessionId)

\* lines 50-60 / 88-98: a fresh plain object, the caller's headers copied into
\* it, then session_id written
SessionHeaders(sessionId, options) ==
    LET headers == IF IsNone(options.headers) THEN <<>>
                   ELSE IF Val(options.headers).isHeaders
                        THEN ObjAssign(<<>>, HeadersEntries(Val(options.headers).h))
                        ELSE ObjAssign(<<>>, Val(options.headers).obj)
    IN  ObjSet(headers, "session_id", sessionId)

\* the closure whose `headers` is the caller's own header object when there is
\* one (const headers = options.headers || {}): session_id is written into it
ClosureObjects_InPlace(sessionId, request, options) ==
    [request |-> request,
     options |-> [options EXCEPT
                     !.headers =
                         IF IsNone(@) THEN @
                         ELSE IF Val(@).isHeaders
                              THEN Some(HeadersInit(HeadersSet(Val(@).h, "session_id",
                                                               sessionId)))
                              ELSE Some(PlainInit(ObjSet(Val(@).obj, "session_id",
                                                         sessionId)))],
     headers |-> SessionHeaders(sessionId, options)]

\* the objects the closure of lines 46-62 / 87-99 can reach, after it ran up to
\* its first await: the caller's request and options (with options.headers),
\* which it only reads, and its own `headers`, the one object it writes to;
\* { ...options, headers } is a new object
ClosureObjects(sessionId, request, options) ==
    [request |-> request,
     options |-> options,
     headers |-> SessionHeaders(sessionId, options)]

\* method.call(client, request, opts) on a resolved member of the dispatcher:
\* a forwarder merges the options and invokes the capability set's method,
\* whose result is awaited; a member of the dispatcher returns at once
InvokeOnDispatcher(cfg, call, method, request, opts) ==
    LET handed == Append(call.handed, Handed(method.name, request, opts))
    IN  IF method.kind = "forward"
        THEN [call EXCEPT !.handed = handed,
                          !.rpcs = Append(call.rpcs,
                                          Rpc(method.set, method.name, request,
                                              mergeCallOptions(cfg, opts)))]
        ELSE [call EXCEPT !.handed = handed, !.pc = "done", !.ret = RetLocal("own")]

\* what the Proxy get of Session resolves prop to, and the properties of the
\* dispatcher it read on the way
Got(kind, method, lookups) == [kind |-> kind, method |-> method, lookups |-> lookups]

\* the Proxy get that asks the dispatcher before it looks at its own accessors
SessionGet_ClientFirst(scope, prop) ==
    IF ~scope.hasClient THEN Got("uninitialized", Resolution("none", "none", prop), <<>>)
    ELSE IF DispatcherGet(prop).kind = "throw"
         THEN IF prop \in ReservedAccessors
              THEN Got("accessor", Resolution("none", "none", prop), <<prop>>)
              ELSE Got("throw", DispatcherGet(prop), <<prop>>)
    ELSE IF IsFunction(DispatcherGet(prop))
         THEN Got("normal", DispatcherGet(prop), <<prop>>)
    ELSE Got("undefined", DispatcherGet(prop), <<prop>>)

\* the part of the Proxy get of Session that resolves prop: which closure, if any
SessionGet(scope, prop) ==
    IF prop \in ReservedAccessors THEN Got("accessor", Resolution("none", "none", prop), <<>>)
    ELSE IF ~scope.hasClient
         THEN Got("uninitialized", Resolution("none", "none", prop), <<>>)
    ELSE IF StartsWith(prop, "sync_") /\ DispatcherGet(Tail(prop)).kind = "throw"
         THEN Got("throw", DispatcherGet(Tail(prop)), <<Tail(prop)>>)
    ELSE IF StartsWith(prop, "sync_") /\ IsFunction(DispatcherGet(Tail(prop)))
         THEN Got("sync", DispatcherGet(Tail(prop)), <<Tail(prop)>>)
    ELSE LET read == IF StartsWith(prop, "sync_") THEN <<Tail(prop), prop>> ELSE <<prop>>
         IN  IF DispatcherGet(prop).kind = "throw"
             THEN Got("throw", DispatcherGet(prop), read)
             ELSE IF IsFunction(DispatcherGet(prop))
                  THEN Got("normal", DispatcherGet(prop), read)
                  ELSE Got("undefined", DispatcherGet(prop), read)

\* session[prop](request, options) up to its first await
SessionStart(cfg, s, prop, request, options) ==
    LET scope == Scopes[s]
        got == SessionGet(scope, prop)
        call == [IdleCall EXCEPT !.via = "session", !.scope = s, !.prop = prop,
                                 !.request = request, !.options = options,
                                 !.pc = "phase1", !.sync = (got.kind = "sync"),
                                 !.lookups = got.lookups]
        headers == SessionHeaders(scope.sessionId, options)
        opts == Options(Some(PlainInit(headers)), options.timeoutMs)
    IN  CASE got.kind = "accessor" ->
                 [call EXCEPT !.pc = "done", !.ret = RetAccessor(scope, prop)]
          [] got.kind = "uninitialized" ->
                 [call EXCEPT !.pc = "done", !.ret = RetThrow(NotInitialized(prop))]
          [] got.kind = "throw" ->
                 [call EXCEPT !.pc = "done", !.ret = RetThrow(MethodNotFound(got.method.name))]
          [] got.kind = "undefined" -> [call EXCEPT !.pc = "done", !.ret = RetLocal("undefined")]
          [] OTHER ->
                 InvokeOnDispatcher(cfg,
                                    [call EXCEPT
                                        !.headers = headers,
                                        !.objects = ClosureObjects(scope.sessionId, request,
                                                                   options)],
                                    got.method, request, opts)

\* task && typeof task === 'object' && 'taskId' in task
HasTaskId(task) == task.kind = "object" /\ task.hasTaskId

\* the wait request that names one task whatever task phase one returned
WaitRequest_SharedTask(scope, task) ==
    Request("wait", Some(7),
            IF IsSome(task.sessionId) /\ Val(task.sessionId) # ""
            THEN Val(task.sessionId) ELSE scope.sessionId)

\* line 71: { taskId: task.taskId, sessionId: task.sessionId || target.sessionInfo.sessionId }
WaitRequest(scope, task) ==
    Request("wait", task.taskId,
            IF IsSome(task.sessionId) /\ Val(task.sessionId) # ""
            THEN Val(task.sessionId) ELSE scope.sessionId)

\* lines 64-75: the wait for the task, entered when phase one gave a task
SessionPhaseTwo(cfg, call, task) ==
    LET scope == Scopes[call.scope]
        waitMethod == DispatcherGet(<<"waitTaskFinish">>)
        read == Append(call.lookups, <<"waitTaskFinish">>)
        truthy(t) == IsSome(t) /\ Val(t) # 0
        waitTimeoutMs == IF truthy(call.options.timeoutMs)
                         THEN call.options.timeoutMs ELSE Some(WaitTimeoutDefault)
    IN  IF waitMethod.kind = "throw"
        THEN [call EXCEPT !.task = task, !.lookups = read, !.pc = "done",
                          !.ret = RetThrow(MethodNotFound(waitMethod.name))]
        ELSE IF waitMethod.kind = "undefined"
        THEN [call EXCEPT !.task = task, !.lookups = read, !.pc = "done",
                          !.ret = RetValue(task)]
        ELSE InvokeOnDispatcher(cfg, [call EXCEPT !.task = task, !.lookups = read,
                                                  !.pc = "phase2"],
                                waitMethod,
                                WaitRequest(scope, task),
                                Options(Some(PlainInit(call.headers)), waitTimeoutMs))

\* the continuation that waits for every phase-one result, task or not
AfterPhaseOne_AlwaysWaits(cfg, call, task) ==
    IF call.sync THEN SessionPhaseTwo(cfg, call, task)
    ELSE [call EXCEPT !.task = task, !.pc = "done", !.ret = RetValue(task)]

\* the continuation that never waits
AfterPhaseOne_NeverWaits(cfg, call, task) ==
    [call EXCEPT !.task = task, !.pc = "done", !.ret = RetValue(task)]

\* the continuation of a call when the awaited method resolved to `task`:
\* a sync_ call goes on to phase two when the result is a task, every other
\* call returns the result
AfterPhaseOne(cfg, call, task) ==
    IF call.sync /\ HasTaskId(task)
    THEN SessionPhaseTwo(cfg, call, task)
    ELSE [call EXCEPT !.task = task, !.pc = "done", !.ret = RetValue(task)]

\* the continuation that invokes the rejected remote operation once more
AfterReject_Retries(cfg, call, err) ==
    IF Len(call.rpcs) < 3
    THEN [call EXCEPT !.rpcs = Append(call.rpcs, call.rpcs[Len(call.rpcs)])]
    ELSE [call EXCEPT !.pc = "done", !.ret = RetThrow(err)]

\* the continuation that goes on to wait for the task after a rejected phase one
AfterReject_WaitsAnyway(cfg, call, err) ==
    IF call.sync /\ call.pc = "phase1"
    THEN SessionPhaseTwo(cfg, call, NoResult)
    ELSE [call EXCEPT !.pc = "done", !.ret = RetThrow(err)]

\* lines 62 and 70 (client.node.ts:49, 58): the awaited remote operation
\* rejected with err; nothing catches it, so the call rejects with err
AfterReject(cfg, call, err) ==
    [call EXCEPT !.pc = "done", !.ret = RetThrow(err)]

\* line 74: the awaited waitTaskFinish resolved to `taskContext_`, which is returned
AfterPhaseTwo(call, taskContext_) ==
    [call EXCEPT !.waited = taskContext_, !.pc = "done", !.ret = RetValue(taskContext_)]

(***************************************************************************)
(* Session scope, the variant of src/unnamed/part_005: no test of the       *)
(* client before it is read, the headers built as a Headers instance, and   *)
(* no timeout for the wait.                                                 *)
(***************************************************************************)
\* what reading a property of null or undefined throws
NullDereference(name) ==
    <<"TypeError:", "Cannot", "read", "properties", "of", "null", "(reading">> \o name

\* headers.append(name, value): a name already there gets the values joined
HeadersAppend(h, name, value) ==
    [h EXCEPT ![Lower(name)] = IF IsNone(@) THEN Some(value)
                               ELSE Some(Val(@) \o ", " \o value)]
RECURSIVE HeadersAppendAll(_, _)
HeadersAppendAll(h, entries) ==
    IF entries = <<>> THEN h
    ELSE HeadersAppendAll(HeadersAppend(h, entries[1][1], entries[1][2]), Tail(entries))

\* new Headers(init): a copy of a Headers instance, or the entries of a plain
\* object appended one by one
NewHeaders(init) ==
    IF init.isHeaders THEN init.h ELSE HeadersAppendAll(EmptyHeaders, init.obj)

\* lines 45-46 / 71-72: new Headers(options.headers || {}), then session_id set
LegacyHeaders(sessionId, options) ==
    HeadersSet(IF IsNone(options.headers) THEN EmptyHeaders
               ELSE NewHeaders(Val(options.headers)),
               "session_id", sessionId)

\* the Proxy get of this variant: after the accessors the client is read at once
LegacyGet(scope, prop) ==
    IF prop \in ReservedAccessors THEN Got("accessor", Resolution("none", "none", prop), <<>>)
    ELSE IF ~scope.hasClient
         THEN Got("typeerror",
                  Resolution("none", "none",
                             IF StartsWith(prop, "sync_") THEN Tail(prop) ELSE prop),
                  <<>>)
    ELSE SessionGet(scope, prop)

\* session[prop](request, options) up to its first await
LegacyStart(cfg, s, prop, request, options) ==
    LET scope == Scopes[s]
        got == LegacyGet(scope, prop)
        call == [IdleCall EXCEPT !.via = "legacy", !.scope = s, !.prop = prop,
                                 !.request = request, !.options = options,
                                 !.pc = "phase1", !.sync = (got.kind = "sync"),
                                 !.lookups = got.lookups]
        headers == LegacyHeaders(scope.sessionId, options)
        opts == Options(Some(HeadersInit(headers)), options.timeoutMs)
    IN  CASE got.kind = "accessor" ->
                 [call EXCEPT !.pc = "done", !.ret = RetAccessor(scope, prop)]
          [] got.kind = "typeerror" ->
                 [call EXCEPT !.pc = "done", !.ret = RetThrow(NullDereference(got.method.name))]
          [] got.kind = "throw" ->
                 [call EXCEPT !.pc = "done", !.ret = RetThrow(MethodNotFound(got.method.name))]
          [] got.kind = "undefined" -> [call EXCEPT !.pc = "done", !.ret = RetLocal("undefined")]
          [] OTHER -> InvokeOnDispatcher(cfg, call, got.method, request, opts)

\* lines 50-59: the wait for the task, with { headers } and nothing else
LegacyPhaseTwo(cfg, call, task) ==
    LET scope == Scopes[call.scope]
        waitMethod == DispatcherGet(<<"waitTaskFinish">>)
        read == Append(call.lookups, <<"waitTaskFinish">>)
        sessionId == IF IsSome(task.sessionId) /\ Val(task.sessionId) # ""
                     THEN Val(task.sessionId) ELSE scope.sessionId
        headers == LegacyHeaders(scope.sessionId, call.options)
    IN  IF waitMethod.kind = "throw"
        THEN [call EXCEPT !.task = task, !.lookups = read, !.pc = "done",
                          !.ret = RetThrow(MethodNotFound(waitMethod.name))]
        ELSE IF waitMethod.kind = "undefined"
        THEN [call EXCEPT !.task = task, !.lookups = read, !.pc = "done",
                          !.ret = RetValue(task)]
        ELSE InvokeOnDispatcher(cfg, [call EXCEPT !.task = task, !.lookups = read,
                                                  !.pc = "phase2"],
                                waitMethod,
                                Request("wait", task.taskId, sessionId),
                                Options(Some(HeadersInit(headers)), None))

\* the continuation of a call of this variant when the awaited method resolved
LegacyAfterPhaseOne(cfg, call, task) ==
    IF call.sync /\ HasTaskId(task)
    THEN LegacyPhaseTwo(cfg, call, task)
    ELSE [call EXCEPT !.task = task, !.pc = "done", !.ret = RetValue(task)]

(***************************************************************************)
(* Calls on the dispatcher itself.                                         *)
(***************************************************************************)
\* dispatcher[prop](request, options), called on the dispatcher itself
DispatcherStart(cfg, prop, request, options) ==
    LET method == DispatcherGet(prop)
        call == [IdleCall EXCEPT !.via = "dispatcher", !.prop = prop, !.request = request,
                                 !.options = options, !.pc = "phase1"]
    IN  CASE method.kind = "throw" ->
                 [call EXCEPT !.pc = "done", !.ret = RetThrow(MethodNotFound(prop))]
          [] ~IsFunction(method) -> [call EXCEPT !.pc = "done", !.ret = RetLocal("undefined")]
          [] OTHER -> InvokeOnDispatcher(cfg, call, method, request, options)

(***************************************************************************)
(* The logging hook of the dispatcher (config.onLog).                      *)
(***************************************************************************)
\* config.onLog: absent, a function that returns, a function that can throw
Hooks == {"none", "returns", "fails"}
HookError == <<"onLog", "failed">>
Initialized == <<"GrpcClient", "initialized", "with", "transport">>
Forwarding(set, name) ==
    <<"Forwarding">> \o name
        \o <<"to", IF set = "malice" THEN "MaliceRPC" ELSE "ListenerRPC">>

\* GrpcClient.log(message): what the hook was given, and whether log threw;
\* fails tells whether the hook throws on this invocation
log(hook, fails, message) ==
    [messages |-> IF hook = "none" THEN <<>> ELSE <<message>>,
     threw |-> hook = "fails" /\ fails]

\* the dispatcher with its hook: not constructed yet, constructed, or the
\* constructor threw; messages are those of the last operation
Logged(hook, state, messages, call) ==
    [hook |-> hook, state |-> state, messages |-> messages, call |-> call]
NotLogged == Logged("none", "none", <<>>, IdleCall)

\* new GrpcClient(config): the constructor reports the transport
LoggedConstruct(hook, fails) ==
    LET l == log(hook, fails, Initialized)
    IN  Logged(hook, IF l.threw THEN "threw" ELSE "constructed", l.messages, IdleCall)

\* dispatcher[prop](request, options) of a dispatcher with a hook: the Proxy
\* get reports the capability set before it returns the forwarder
LoggedStart(cfg, hook, fails, prop, request, options) ==
    LET method == DispatcherGet(prop)
        l == IF method.kind = "forward"
             THEN log(hook, fails, Forwarding(method.set, prop))
             ELSE [messages |-> <<>>, threw |-> FALSE]
        call == [IdleCall EXCEPT !.via = "dispatcher", !.prop = prop, !.request = request,
                                 !.options = options, !.pc = "done"]
    IN  [messages |-> l.messages,
         call |-> IF l.threw
                  THEN [call EXCEPT !.ret = RetThrow(HookError)]
                  ELSE DispatcherStart(cfg, prop, request, options)]

(***************************************************************************)
(* Session descriptors, Session instances and the registry (SessionManager, *)
(* session.ts).  Descriptors are objects: the registry, a scope and the     *)
(* caller can hold the same one.                                            *)
(***************************************************************************)
MaxObjects == 2
MaxInstances == 2
MaxListing == 1

SessionIds == {"s1", "s2"}
\* name?: string
DescriptorNames == {None, Some("alpha")}
Objects == 1..MaxObjects

\* a cell of the heap: free, or a descriptor {sessionId, name?}; held tells
\* that the object was made by the caller or returned to it by list(), so that
\* the caller has a reference to it without asking a scope
NoObject == [alloc |-> FALSE, held |-> FALSE, sessionId |-> "", name |-> None]
Descriptor(sessionId, name, held) ==
    [alloc |-> TRUE, held |-> held, sessionId |-> sessionId, name |-> name]
FreeObjects(h) == {o \in Objects : ~h[o].alloc}
NewObject(h) == CHOOSE o \in FreeObjects(h) : \A q \in FreeObjects(h) : o <= q

\* a Session instance: the descriptor it refers to; bound records the
\* identifier it was constructed with
Instance(info, bound) == [info |-> info, bound |-> bound]
\* the argument of new Session(client, sessionInfo): a string or a descriptor
StringArg(id) == [isString |-> TRUE, id |-> id, obj |-> 0]
DescriptorArg(o) == [isString |-> FALSE, id |-> "", obj |-> o]

\* new Session(client, arg): the heap and the instances after it (the new
\* instance is the last one)
NewSession(h, insts, arg) ==
    IF arg.isString
    THEN LET o == NewObject(h)
         IN  [heap |-> [h EXCEPT ![o] = Descriptor(arg.id, None, FALSE)],
              instances |-> Append(insts, Instance(o, arg.id))]
    ELSE [heap |-> h,
          instances |-> Append(insts, Instance(arg.obj, h[arg.obj].sessionId))]

\* target.sessionInfo.sessionId of instance i
ScopeSessionId(h, insts, i) == h[insts[i].info].sessionId

\* an absent entry of a Map
NoEntry == 0
EmptyMap == [k \in SessionIds |-> NoEntry]

\* the update that keeps the descriptor already stored under an identifier
RECURSIVE updateSessions_KeepOld(_, _, _)
updateSessions_KeepOld(h, infos, objs) ==
    IF objs = <<>> THEN infos
    ELSE updateSessions_KeepOld(h,
             IF infos[h[objs[1]].sessionId] # NoEntry THEN infos
             ELSE [infos EXCEPT ![h[objs[1]].sessionId] = objs[1]],
             Tail(objs))

\* the lookup that makes a scope at every call
getSession_NoCache(h, insts, sess, infos, sessionId) ==
    LET o == IF infos[sessionId] # NoEntry THEN infos[sessionId]
             ELSE IF FreeObjects(h) # {} THEN NewObject(h) ELSE 1
        made == NewSession([h EXCEPT ![o] = IF infos[sessionId] # NoEntry THEN h[o]
                                              ELSE Descriptor(sessionId, None, FALSE)],
                           insts, DescriptorArg(o))
    IN  [heap |-> made.heap, instances |-> made.instances,
         sessions |-> [sess EXCEPT ![sessionId] = Len(made.instances)],
         returned |-> Len(made.instances)]

\* updateSessions(sessions): each descriptor is stored under its sessionId
RECURSIVE updateSessions(_, _, _)
updateSessions(h, infos, objs) ==
    IF objs = <<>> THEN infos
    ELSE updateSessions(h, [infos EXCEPT ![h[objs[1]].sessionId] = objs[1]], Tail(objs))

\* the lookup that makes a new scope when the descriptor stored for the
\* identifier is no longer the one of the cached scope
getSession_Refresh(h, insts, sess, infos, sessionId) ==
    IF sess[sessionId] # NoEntry
       /\ (infos[sessionId] = NoEntry \/ insts[sess[sessionId]].info = infos[sessionId])
    THEN [heap |-> h, instances |-> insts, sessions |-> sess, returned |-> sess[sessionId]]
    ELSE LET withInfo ==
                 IF infos[sessionId] # NoEntry
                 THEN [heap |-> h, obj |-> infos[sessionId]]
                 ELSE [heap |-> [h EXCEPT ![NewObject(h)] = Descriptor(sessionId, None, FALSE)],
                       obj |-> NewObject(h)]
             made == NewSession(withInfo.heap, insts, DescriptorArg(withInfo.obj))
         IN  [heap |-> made.heap, instances |-> made.instances,
              sessions |-> [sess EXCEPT ![sessionId] = Len(made.instances)],
              returned |-> Len(made.instances)]

\* getSession(sessionId): the heap, the instances and the sessions map after
\* it, and the instance it returns
getSession(h, insts, sess, infos, sessionId) ==
    IF sess[sessionId] # NoEntry
    THEN [heap |-> h, instances |-> insts, sessions |-> sess, returned |-> sess[sessionId]]
    ELSE LET withInfo == \* this.sessionInfos.get(sessionId) || { sessionId }
                 IF infos[sessionId] # NoEntry
                 THEN [heap |-> h, obj |-> infos[sessionId]]
                 ELSE [heap |-> [h EXCEPT ![NewObject(h)] = Descriptor(sessionId, None, FALSE)],
                       obj |-> NewObject(h)]
             made == NewSession(withInfo.heap, insts, DescriptorArg(withInfo.obj))
         IN  [heap |-> made.heap, instances |-> made.instances,
              sessions |-> [sess EXCEPT ![sessionId] = Len(made.instances)],
              returned |-> Len(made.instances)]

\* the removal that has deleted the scope and not yet the descriptor
removeSession_ScopeOnly(sess, infos, sessionId) ==
    [sessions |-> [sess EXCEPT ![sessionId] = NoEntry], sessionInfos |-> infos]

\* removeSession(sessionId): both maps after the two deletes
removeSession(sess, infos, sessionId) ==
    [sessions |-> [sess EXCEPT ![sessionId] = NoEntry],
     sessionInfos |-> [infos EXCEPT ![sessionId] = NoEntry]]

\* clearSessions(): both maps after the two clears
clearSessions(sess, infos) == [sessions |-> EmptyMap, sessionInfos |-> EmptyMap]

\* taskNameToMethod[name.toLowerCase()] of executeTask; a name that is not a
\* key of the table but a member of every object ("constructor") gives that
\* member, which read as a property name is its source text
TaskNames == {"ls", "LS", "bogus", "constructor"}
TaskMethod(name) ==
    CASE name \in {"ls", "LS"} -> Some(<<"sync_", "ls">>)
      [] name = "constructor" -> Some(<<"function Object() { [native code] }">>)
      [] OTHER -> None

\* executeTask(taskRequest, sessionId) of a manager that has a client, up to
\* its await: the registry after it, the scope it used, and how it went on:
\* "called" (the sync_ method of the scope was called with the request),
\* "unsupported" (it threw the 'not supported' error), or "threw" (reading
\* the method from the scope threw)
executeTask(h, insts, sess, infos, name, sessionId) ==
    LET got == getSession(h, insts, sess, infos, sessionId)
        session == [sessionId |-> ScopeSessionId(got.heap, got.instances, got.returned),
                    hasClient |-> TRUE]
        methodName == TaskMethod(name)
        read == SessionGet(session, Val(methodName))
    IN  [heap |-> got.heap, instances |-> got.instances, sessions |-> got.sessions,
         scope |-> got.returned,
         outcome |-> IF IsNone(methodName) THEN "unsupported"
                     ELSE IF read.kind = "throw" THEN "threw"
                     ELSE IF read.kind \in {"sync", "normal"} THEN "called"
                     ELSE "unsupported"]

\* what a read of an accessor or a call through a scope gave
Observation(kind, scope, sessionId) == [kind |-> kind, scope |-> scope, sessionId |-> sessionId]
NoObservation == Observation("none", 0, "")

RegistryInit ==
    /\ heap = [o \in Objects |-> NoObject]
    /\ instances = <<>>
    /\ sessions = EmptyMap
    /\ sessionInfos = EmptyMap
    /\ listing = 0
    /\ observed = NoObservation
    /\ built = NotBuilt
    /\ removed = {}
    /\ logging = NotLogged
RegistryUnchanged ==
    UNCHANGED <<heap, instances, sessions, sessionInfos, listing, observed, built, removed,
                logging>>

(***************************************************************************)
(* Inputs of the decoder.                                                  *)
(***************************************************************************)
Opt(S) == {None} \cup {Some(v) : v \in S}
Codes == 0..MaxCode
StatusTexts == {<<>>, <<"path", "required">>}
OutputTexts == {<<>>, <<"ok">>}
ErrorTexts == {<<>>, <<"denied">>}
Statuses == [status : Opt(Codes), error : Opt(StatusTexts)]
Responses == [output : Opt(OutputTexts), error : Opt(ErrorTexts)]
Bodies == [case : {"response", "other"}, value : Opt(Responses)]
Spites == [error : Opt(Codes), status : Opt(Statuses), body : Opt(Bodies)]
TaskContexts == Opt([spite : Opt(Spites)])

(***************************************************************************)
(* The decoder as a state machine: a Task Context arrives, and each entry  *)
(* point is applied to it once.                                            *)
(***************************************************************************)
InitDecode ==
    /\ taskContext \in TaskContexts
    /\ outGet = None
    /\ outParse = None
    /\ config = [defaultHeaders |-> None, timeout |-> None]
    /\ calls = [c \in Callers |-> IdleCall]
    /\ RegistryInit

GetOutput ==
    /\ IsNone(outGet)
    /\ outGet' = Some(getOutputFromTaskContext(taskContext))
    /\ UNCHANGED <<taskContext, outParse, config, calls>>
    /\ RegistryUnchanged

Parse ==
    /\ IsNone(outParse)
    /\ outParse' = Some(parseTaskContext(taskContext))
    /\ UNCHANGED <<taskContext, outGet, config, calls>>
    /\ RegistryUnchanged

NextDecode == GetOutput \/ Parse

SpecDecode == InitDecode /\ [][NextDecode]_vars

(***************************************************************************)
(* Inputs of the calls.                                                    *)
(***************************************************************************)
HeaderValues == {"evil"}
DefaultValue == "dflt"

\* the plain objects of at most n entries over the keys K, values V
RECURSIVE PlainObjects(_, _, _)
PlainObjects(K, V, n) ==
    IF n = 0 THEN {<<>>}
    ELSE LET shorter == PlainObjects(K, V, n - 1)
         IN  shorter \cup
             {Append(o, <<k, v>>) : o \in {x \in shorter : Len(x) = n - 1}, k \in K, v \in V}
DistinctKeys(obj) == \A i, j \in 1..Len(obj) : obj[i][1] = obj[j][1] => i = j

CallerKeys == {"session_id", "Session_ID", "x-a"}
CallerPlainHeaders ==
    {o \in PlainObjects(CallerKeys, HeaderValues, MaxHeaders) :
        DistinctKeys(o)}
CallerHeadersInstances ==
    {HeadersSetAll(EmptyHeaders, o) :
        o \in {x \in PlainObjects({"session_id", "x-a"}, HeaderValues, 2) :
                  DistinctKeys(x) /\ x # <<>>}}
CallerHeaders ==
    {None} \cup {Some(PlainInit(o)) : o \in CallerPlainHeaders}
           \cup {Some(HeadersInit(h)) : h \in CallerHeadersInstances}
CallerTimeouts == {None, Some(0), Some(5)}
CallerOptions == {Options(h, t) : h \in CallerHeaders, t \in CallerTimeouts}
CallerRequests == {Request("reqA", None, None), Request("reqB", None, None)}

\* names read on the dispatcher, and on a scope (each also with the sync_ prefix)
DispatcherProps ==
    MaliceMethods \cup ListenerMethods
    \cup {<<"nope">>, <<"_", "none">>, <<"getMaliceClient">>, <<"getListenerClient">>,
          <<"config">>}
SessionProps ==
    DispatcherProps \cup {<<"sync_">> \o p : p \in DispatcherProps} \cup ReservedAccessors

\* what a remote operation can resolve to
RemoteResults ==
    { Result("null", FALSE, None, None),
      Result("string", FALSE, None, None),
      Result("object", FALSE, None, Some("s9")),
      Result("object", TRUE, Some(7), None),
      Result("object", TRUE, Some(7), Some("")),
      Result("object", TRUE, Some(8), Some("s9")),
      Result("context", FALSE, None, None) }
\* what a remote operation can reject with: an error of the server, a timeout
RpcFailed == <<"rpc", "failed">>
DeadlineExceeded == <<"deadline", "exceeded">>
RemoteErrors == {RpcFailed, DeadlineExceeded}

Configs ==
    [defaultHeaders : {None, Some(<< <<"X-A", DefaultValue>> >>),
                       Some(<< <<"session_id", DefaultValue>> >>)},
     timeout : {None, Some(10)}]

(***************************************************************************)
(* The calls as a state machine.  A call is started on a scope or on the   *)
(* dispatcher and runs to its first await; the remote operation it waits   *)
(* for then resolves or rejects, and the call goes on from there.          *)
(***************************************************************************)
Init ==
    /\ taskContext = None
    /\ outGet = None
    /\ outParse = None
    /\ config \in Configs
    /\ calls = [c \in Callers |-> IdleCall]
    /\ RegistryInit

DecoderUnchanged == UNCHANGED <<taskContext, outGet, outParse>>

SessionCall(c, Props, Reqs, Opts) ==
    /\ calls[c].pc = "idle"
    /\ \E s \in DOMAIN Scopes, prop \in Props, request \in Reqs, options \in Opts :
           calls' = [calls EXCEPT ![c] = SessionStart(config, s, prop, request, options)]
    /\ UNCHANGED config
    /\ DecoderUnchanged
    /\ RegistryUnchanged

\* a call through a scope of the variant of src/unnamed/part_005
LegacySessionCall(c, Props, Reqs, Opts) ==
    /\ calls[c].pc = "idle"
    /\ \E s \in DOMAIN Scopes, prop \in Props, request \in Reqs, options \in Opts :
           calls' = [calls EXCEPT ![c] = LegacyStart(config, s, prop, request, options)]
    /\ UNCHANGED config
    /\ DecoderUnchanged
    /\ RegistryUnchanged

DispatcherCall(c, Props, Reqs, Opts) ==
    /\ calls[c].pc = "idle"
    /\ \E prop \in Props, request \in Reqs, options \in Opts :
           calls' = [calls EXCEPT ![c] = DispatcherStart(config, prop, request, options)]
    /\ UNCHANGED config
    /\ DecoderUnchanged
    /\ RegistryUnchanged

\* the method awaited in phase one resolves
PhaseOneResolves(c, Results) ==
    /\ calls[c].pc = "phase1"
    /\ calls[c].via # "legacy"
    /\ \E task \in Results :
           calls' = [calls EXCEPT ![c] = AfterPhaseOne(config, calls[c], task)]
    /\ UNCHANGED config
    /\ DecoderUnchanged
    /\ RegistryUnchanged

\* the same, in a call through a scope of the variant of src/unnamed/part_005
LegacyPhaseOneResolves(c, Results) ==
    /\ calls[c].pc = "phase1"
    /\ calls[c].via = "legacy"
    /\ \E task \in Results :
           calls' = [calls EXCEPT ![c] = LegacyAfterPhaseOne(config, calls[c], task)]
    /\ UNCHANGED config
    /\ DecoderUnchanged
    /\ RegistryUnchanged

\* the method awaited in phase one rejects: the call rejects with its error
PhaseOneRejects(c, Errors) ==
    /\ calls[c].pc = "phase1"
    /\ \E err \in Errors :
           calls' = [calls EXCEPT
                        ![c] = AfterReject(config, [calls[c] EXCEPT !.failure = err], err)]
    /\ UNCHANGED config
    /\ DecoderUnchanged
    /\ RegistryUnchanged

\* waitTaskFinish resolves: its result is the result of the call
PhaseTwoResolves(c, Results) ==
    /\ calls[c].pc = "phase2"
    /\ \E taskContext_ \in Results :
           calls' = [calls EXCEPT ![c] = AfterPhaseTwo(calls[c], taskContext_)]
    /\ UNCHANGED config
    /\ DecoderUnchanged
    /\ RegistryUnchanged

\* waitTaskFinish rejects
PhaseTwoRejects(c, Errors) ==
    /\ calls[c].pc = "phase2"
    /\ \E err \in Errors :
           calls' = [calls EXCEPT
                        ![c] = AfterReject(config, [calls[c] EXCEPT !.failure = err], err)]
    /\ UNCHANGED config
    /\ DecoderUnchanged
    /\ RegistryUnchanged

Next ==
    \/ SessionCall("c1", SessionProps, CallerRequests, CallerOptions)
    \/ LegacySessionCall("c1", SessionProps, CallerRequests, CallerOptions)
    \/ DispatcherCall("c1", DispatcherProps, CallerRequests, CallerOptions)
    \/ PhaseOneResolves("c1", RemoteResults)
    \/ LegacyPhaseOneResolves("c1", RemoteResults)
    \/ PhaseOneRejects("c1", RemoteErrors)
    \/ PhaseTwoResolves("c1", RemoteResults)
    \/ PhaseTwoRejects("c1", RemoteErrors)

Spec == Init /\ [][Next]_vars

(***************************************************************************)
(* Two callers at once: every await is a point where the other caller's    *)
(* call, or the answer to it, can come in between.                         *)
(***************************************************************************)
ConcurrentProps == {<<"sync_", "ls">>, <<"ls">>}
ConcurrentRequests == {Request("reqA", None, None)}
ConcurrentOptions ==
    {NoOptions, Options(None, Some(5))} \cup
    {Options(Some(PlainInit(<< <<"x-a", v>> >>)), None) : v \in {"one", "two"}}
\* the server assigns every task its own identifier
ConcurrentTasks ==
    { Result("object", TRUE, Some(7), None),
      Result("object", TRUE, Some(8), None),
      Result("null", FALSE, None, None) }
\* what waitTaskFinish resolves to for the task it was asked about
ContextOf(taskId) == Result("context", TRUE, taskId, None)
Asked(call) == call.rpcs[Len(call.rpcs)].request

NextConcurrent ==
    \E c \in Callers :
        \/ SessionCall(c, ConcurrentProps, ConcurrentRequests, ConcurrentOptions)
        \/ PhaseOneResolves(c, ConcurrentTasks)
        \/ PhaseOneRejects(c, {RpcFailed})
        \/ PhaseTwoResolves(c, {ContextOf(Asked(calls[c]).taskId)})
        \/ PhaseTwoRejects(c, {RpcFailed})

SpecConcurrent == Init /\ [][NextConcurrent]_vars

(***************************************************************************)
(* Construction as a state machine: a client is constructed from a         *)
(* configuration, and the first remote call is made on the instance.       *)
(***************************************************************************)
Variants == {"node", "browser"}
Transports == {None, Some("grpc"), Some("grpc-web")}
BaseUrls == {None, Some(""), Some("https://c2")}
Auths == {None} \cup {Some(Auth(host, tls)) : host \in BOOLEAN, tls \in BOOLEAN}

InitConstruct ==
    /\ taskContext = None
    /\ outGet = None
    /\ outParse = None
    /\ config = [defaultHeaders |-> None, timeout |-> None]
    /\ calls = [c \in Callers |-> IdleCall]
    /\ RegistryInit

BuiltUnchanged ==
    UNCHANGED <<taskContext, outGet, outParse, config, calls,
                heap, instances, sessions, sessionInfos, listing, observed, removed,
                logging>>

Construct(variant, cfg) ==
    /\ built.state = "none"
    /\ built' = NewGrpcClient(variant, cfg)
    /\ BuiltUnchanged

RemoteCall ==
    /\ built.state = "constructed"
    /\ built.call = "none"
    /\ built' = FirstRemoteCall(built)
    /\ BuiltUnchanged

NextConstruct ==
    \/ \E variant \in Variants, transport \in Transports, baseUrl \in BaseUrls, auth \in Auths :
           Construct(variant, TransportConfig(transport, baseUrl, auth))
    \/ RemoteCall

SpecConstruct == InitConstruct /\ [][NextConstruct]_vars

(***************************************************************************)
(* The dispatcher with a logging hook: it is constructed, then called.     *)
(***************************************************************************)
LogOptions ==
    {NoOptions, Options(None, Some(5)),
     Options(Some(PlainInit(<< <<"x-a", "one">> >>)), None)}

InitLog ==
    /\ taskContext = None
    /\ outGet = None
    /\ outParse = None
    /\ config \in Configs
    /\ calls = [c \in Callers |-> IdleCall]
    /\ heap = [o \in Objects |-> NoObject]
    /\ instances = <<>>
    /\ sessions = EmptyMap
    /\ sessionInfos = EmptyMap
    /\ listing = 0
    /\ observed = NoObservation
    /\ built = NotBuilt
    /\ removed = {}
    /\ logging \in {Logged(hook, "none", <<>>, IdleCall) : hook \in Hooks}

LogUnchanged ==
    UNCHANGED <<taskContext, outGet, outParse, config, calls, heap, instances, sessions,
                sessionInfos, listing, observed, built, removed>>

LogConstruct(fails) ==
    /\ logging.state = "none"
    /\ logging' = LoggedConstruct(logging.hook, fails)
    /\ LogUnchanged

LoggedCall(fails, prop, request, options) ==
    /\ logging.state = "constructed"
    /\ LET started == LoggedStart(config, logging.hook, fails, prop, request, options)
       IN  logging' = [logging EXCEPT !.messages = started.messages,
                                      !.call = started.call]
    /\ LogUnchanged

NextLog ==
    \/ \E fails \in BOOLEAN : LogConstruct(fails)
    \/ \E fails \in BOOLEAN, prop \in DispatcherProps, request \in CallerRequests,
          options \in LogOptions :
           LoggedCall(fails, prop, request, options)

SpecLog == InitLog /\ [][NextLog]_vars

(***************************************************************************)
(* The registry as a state machine: the caller makes descriptors, feeds    *)
(* them to the registry, asks it for scopes, reads and calls through the   *)
(* scopes, and writes to the descriptor objects it holds.                  *)
(***************************************************************************)
InitRegistry ==
    /\ taskContext = None
    /\ outGet = None
    /\ outParse = None
    /\ config = [defaultHeaders |-> None, timeout |-> None]
    /\ calls = [c \in Callers |-> IdleCall]
    /\ RegistryInit

CallsUnchanged ==
    UNCHANGED <<taskContext, outGet, outParse, config, calls, built, logging>>

\* the descriptor objects the caller has a reference to
HeldObjects == {o \in Objects : heap[o].alloc /\ heap[o].held}
\* the Session instances
InstanceIds == 1..Len(instances)

\* the caller writes the object literal {sessionId: id, name?: name}
MakeDescriptor(id, name) ==
    /\ FreeObjects(heap) # {}
    /\ heap' = [heap EXCEPT ![NewObject(heap)] = Descriptor(id, name, TRUE)]
    /\ UNCHANGED <<instances, sessions, sessionInfos, listing, observed>>
    /\ UNCHANGED removed
    /\ CallsUnchanged

\* manager.updateSessions(objs)
UpdateSessions(objs) ==
    /\ sessionInfos' = updateSessions(heap, sessionInfos, objs)
    /\ UNCHANGED <<heap, instances, sessions, listing, observed>>
    /\ removed' = removed \ {heap[objs[i]].sessionId : i \in 1..Len(objs)}
    /\ CallsUnchanged

\* new Session(client, arg), by the caller
ConstructSession(arg) ==
    /\ Len(instances) < MaxInstances
    /\ arg.isString => FreeObjects(heap) # {}
    /\ LET made == NewSession(heap, instances, arg)
       IN  /\ heap' = made.heap
           /\ instances' = made.instances
    /\ UNCHANGED <<sessions, sessionInfos, listing, observed>>
    /\ UNCHANGED removed
    /\ CallsUnchanged

\* manager.getSession(id)
GetSession(id) ==
    /\ sessions[id] = NoEntry => Len(instances) < MaxInstances
    /\ (sessions[id] = NoEntry /\ sessionInfos[id] = NoEntry) => FreeObjects(heap) # {}
    /\ LET got == getSession(heap, instances, sessions, sessionInfos, id)
       IN  /\ heap' = got.heap
           /\ instances' = got.instances
           /\ sessions' = got.sessions
           /\ UNCHANGED <<sessionInfos, listing, observed>>
    /\ removed' = removed \ {id}
    /\ CallsUnchanged

\* manager.removeSession(id)
RemoveSession(id) ==
    /\ sessions' = removeSession(sessions, sessionInfos, id).sessions
    /\ sessionInfos' = removeSession(sessions, sessionInfos, id).sessionInfos
    /\ UNCHANGED <<heap, instances, listing, observed>>
    /\ removed' = IF listing > 0 THEN removed \cup {id} ELSE removed
    /\ CallsUnchanged

\* manager.clearSessions()
ClearSessions ==
    /\ sessions' = clearSessions(sessions, sessionInfos).sessions
    /\ sessionInfos' = clearSessions(sessions, sessionInfos).sessionInfos
    /\ UNCHANGED <<heap, instances, listing, observed>>
    /\ removed' = IF listing > 0 THEN SessionIds ELSE removed
    /\ CallsUnchanged

\* manager.executeTask({name}, id) up to its await; the call it makes through
\* the scope goes on as every sync_ call does, and nothing after the await
\* touches the registry
ExecuteTask(name, id) ==
    /\ sessions[id] = NoEntry => Len(instances) < MaxInstances
    /\ (sessions[id] = NoEntry /\ sessionInfos[id] = NoEntry) => FreeObjects(heap) # {}
    /\ LET done == executeTask(heap, instances, sessions, sessionInfos, name, id)
       IN  /\ heap' = done.heap
           /\ instances' = done.instances
           /\ sessions' = done.sessions
           /\ observed' = Observation(done.outcome, done.scope,
                                      ScopeSessionId(done.heap, done.instances, done.scope))
    /\ UNCHANGED <<sessionInfos, listing>>
    /\ removed' = removed \ {id}
    /\ CallsUnchanged

\* manager.list() up to its await
ListStart ==
    /\ listing < MaxListing
    /\ listing' = listing + 1
    /\ UNCHANGED <<heap, instances, sessions, sessionInfos, observed>>
    /\ removed' = {}
    /\ CallsUnchanged

\* the descriptors of a response, put on the heap one after the other
RECURSIVE Decoded(_, _, _)
Decoded(h, items, objs) ==
    IF items = <<>> THEN [heap |-> h, objs |-> objs]
    ELSE Decoded([h EXCEPT ![NewObject(h)] = Descriptor(items[1][1], items[1][2], TRUE)],
                 Tail(items), Append(objs, NewObject(h)))

\* getSessions resolves: response.sessions || [] is stored, and returned
ListCompletes(response) ==
    /\ listing > 0
    /\ LET items == IF IsNone(response) THEN <<>> ELSE Val(response)
       IN  /\ Cardinality(FreeObjects(heap)) >= Len(items)
           /\ LET dec == Decoded(heap, items, <<>>)
              IN  /\ heap' = dec.heap
                  /\ sessionInfos' = updateSessions(dec.heap, sessionInfos, dec.objs)
    /\ listing' = listing - 1
    /\ UNCHANGED <<instances, sessions, observed>>
    /\ removed' = IF listing > 1 THEN removed ELSE {}
    /\ CallsUnchanged

\* getSessions rejects: list() rejects
ListRejects ==
    /\ listing > 0
    /\ listing' = listing - 1
    /\ UNCHANGED <<heap, instances, sessions, sessionInfos, observed>>
    /\ removed' = IF listing > 1 THEN removed ELSE {}
    /\ CallsUnchanged

\* scope.sessionId or scope.getSessionId() on instance i
ReadAccessor(i) ==
    /\ observed' = Observation("read", i, ScopeSessionId(heap, instances, i))
    /\ UNCHANGED <<heap, instances, sessions, sessionInfos, listing>>
    /\ UNCHANGED removed
    /\ CallsUnchanged

\* scope.sessionInfo.sessionId = id on instance i: the accessor gives the
\* descriptor object of the scope, and the caller assigns to its field
WriteThroughScope(i, id) ==
    /\ ScopeSessionId(heap, instances, i) # id
    /\ heap' = [heap EXCEPT ![instances[i].info].sessionId = id]
    /\ UNCHANGED <<instances, sessions, sessionInfos, listing, observed>>
    /\ UNCHANGED removed
    /\ CallsUnchanged

\* a call through instance i: the session_id it puts in the headers
ScopeCall(i) ==
    /\ observed' = Observation("call", i,
                       Val(ObjGet(SessionHeaders(ScopeSessionId(heap, instances, i), NoOptions),
                                  "session_id")))
    /\ UNCHANGED <<heap, instances, sessions, sessionInfos, listing>>
    /\ UNCHANGED removed
    /\ CallsUnchanged

\* the caller assigns info.sessionId = id on a descriptor object it holds
WriteDescriptor(o, id) ==
    /\ heap[o].sessionId # id
    /\ heap' = [heap EXCEPT ![o].sessionId = id]
    /\ UNCHANGED <<instances, sessions, sessionInfos, listing, observed>>
    /\ UNCHANGED removed
    /\ CallsUnchanged

\* what the remote session list can be
ListResponses ==
    {None, Some(<<>>)} \cup {Some(<< <<id, n>> >>) : id \in SessionIds, n \in DescriptorNames}

NextRegistry ==
    \/ \E id \in SessionIds, n \in DescriptorNames : MakeDescriptor(id, n)
    \/ \E o \in HeldObjects : UpdateSessions(<<o>>)
    \/ \E o, q \in HeldObjects : o # q /\ UpdateSessions(<<o, q>>)
    \/ \E id \in SessionIds : ConstructSession(StringArg(id))
    \/ \E o \in HeldObjects : ConstructSession(DescriptorArg(o))
    \/ \E id \in SessionIds : GetSession(id)
    \/ \E id \in SessionIds : RemoveSession(id)
    \/ ClearSessions
    \/ ListStart
    \/ \E response \in ListResponses : ListCompletes(response)
    \/ ListRejects
    \/ \E i \in InstanceIds : ReadAccessor(i)
    \/ \E i \in InstanceIds : ScopeCall(i)
    \/ \E i \in InstanceIds, id \in SessionIds : WriteThroughScope(i, id)
    \/ \E o \in HeldObjects, id \in SessionIds : WriteDescriptor(o, id)

SpecRegistry == InitRegistry /\ [][NextRegistry]_vars

\* the operations of the SessionManager alone: the caller makes descriptors
\* and calls the registry, and leaves descriptors and scopes as they are
NextManager ==
    \/ \E id \in SessionIds, n \in DescriptorNames : MakeDescriptor(id, n)
    \/ \E o \in HeldObjects : UpdateSessions(<<o>>)
    \/ \E o, q \in HeldObjects : o # q /\ UpdateSessions(<<o, q>>)
    \/ \E id \in SessionIds : GetSession(id)
    \/ \E id \in SessionIds : RemoveSession(id)
    \/ ClearSessions
    \/ ListStart
    \/ \E response \in ListResponses : ListCompletes(response)
    \/ ListRejects

SpecManager == InitRegistry /\ [][NextManager]_vars

\* the same, and executeTask
NextTasks ==
    \/ NextManager
    \/ \E name \in TaskNames, id \in SessionIds : ExecuteTask(name, id)

SpecTasks == InitRegistry /\ [][NextTasks]_vars

(***************************************************************************)
(* Properties of the calls (checked under Spec).                           *)
(***************************************************************************)
\* the calls made through a scope, and those made on the dispatcher itself
SessionCalls == {c \in Callers : calls[c].via = "session"}
LegacyCalls == {c \in Callers : calls[c].via = "legacy"}
DispatcherCalls == {c \in Callers : calls[c].via = "dispatcher"}

\* the session_id entry of a header mapping handed to the dispatcher
HandedSessionId(h) ==
    IF IsNone(h.options.headers) \/ Val(h.options.headers).isHeaders THEN None
    ELSE ObjGet(Val(h.options.headers).obj, "session_id")

\* C1: every call through a Session Scope (plain or sync_, phase one and phase
\* two) hands the dispatcher a header mapping whose session_id is the scope's
\* identifier, whatever the caller supplied under session_id, as a plain object
\* or as a Headers instance.
C1_SessionIdInjected ==
    \A c \in SessionCalls :
        /\ \A i \in 1..Len(calls[c].handed) :
               HandedSessionId(calls[c].handed[i]) = Some(Scopes[calls[c].scope].sessionId)
        /\ calls[c].pc = "phase1" => Len(calls[c].handed) = 1
        /\ calls[c].pc = "phase2" => Len(calls[c].handed) = 2

\* a sync_ call in its second phase whose caller passed session_id in a Headers instance
C1_Witness ==
    /\ calls["c1"].via = "session" /\ calls["c1"].sync
    /\ calls["c1"].pc = "phase2"
    /\ Scopes[calls["c1"].scope].sessionId = "s2"
    /\ IsSome(calls["c1"].options.headers)
    /\ Val(calls["c1"].options.headers).isHeaders
    /\ Val(calls["c1"].options.headers).h["session_id"] = Some("evil")
    /\ Len(calls["c1"].handed) = 2

InMalice(p) == p \in MaliceMethods
InListener(p) == p \in ListenerMethods
\* the dispatcher routed call c to capability set `set`, once, and to nothing else
RoutedTo(c, set) ==
    calls[c].rpcs = << Rpc(set, calls[c].prop, calls[c].request,
                           mergeCallOptions(config, calls[c].options)) >>
ThrewMethodNotFound(c) ==
    /\ calls[c].ret.kind = "throw"
    /\ Contains(calls[c].ret.err, calls[c].prop)
    /\ Contains(calls[c].ret.err, <<"not", "found">>)
    /\ calls[c].rpcs = <<>>

\* C2 (as claimed): a name defined in exactly one capability set, and not a
\* member of the dispatcher, is routed to that set's method, once, with
\* (request, merged options), and nothing is called on the other set; a name
\* defined in neither set makes the dispatcher throw "method not found" naming
\* the method, and nothing is called.
C2_RoutingAsClaimed ==
    \A c \in DispatcherCalls :
        LET p == calls[c].prop
        IN  ~InTarget(p) =>
                /\ (InMalice(p) /\ ~InListener(p)) => RoutedTo(c, "malice")
                /\ (InListener(p) /\ ~InMalice(p)) => RoutedTo(c, "listener")
                /\ (~InMalice(p) /\ ~InListener(p)) => ThrewMethodNotFound(c)

\* C2 (amended): the same, for the names that do not begin with an underscore;
\* a name that begins with an underscore is read from the dispatcher object
\* itself, so nothing is routed and nothing is thrown.
C2_Routing ==
    \A c \in DispatcherCalls :
        LET p == calls[c].prop
        IN  /\ (~InTarget(p) /\ ~StartsWith(p, "_")) =>
                /\ (InMalice(p) /\ ~InListener(p)) => RoutedTo(c, "malice")
                /\ (InListener(p) /\ ~InMalice(p)) => RoutedTo(c, "listener")
                /\ (~InMalice(p) /\ ~InListener(p)) => ThrewMethodNotFound(c)
            /\ (~InTarget(p) /\ StartsWith(p, "_")) =>
                /\ calls[c].rpcs = <<>>
                /\ calls[c].ret.kind = "undefined"

\* a routed call with caller headers, and a thrown one, are both reached
C2_Witness ==
    /\ calls["c1"].via = "dispatcher"
    /\ calls["c1"].prop = <<"listen">>
    /\ calls["c1"].pc = "done" /\ calls["c1"].ret.kind = "value"
    /\ IsSome(calls["c1"].options.headers)
    /\ Len(calls["c1"].rpcs) = 1 /\ calls["c1"].rpcs[1].set = "listener"
    /\ calls["c1"].rpcs[1].options.headers["x-a"] = Some("evil")

\* sync_ calls through a scope whose phase one has resolved
ResolvedSyncCalls ==
    {c \in SessionCalls : calls[c].sync /\ calls[c].task # NoResult}
IsTask(task) == task.kind = "object" /\ task.hasTaskId
\* the session identifier a phase-one result carries: none when the field is
\* left out or empty
CarriedSessionId(task) ==
    IF IsNone(task.sessionId) \/ task.sessionId = Some("") THEN None ELSE task.sessionId

\* C3: in a sync_ call whose phase-one result is an object with a taskId field,
\* exactly one phase-two call is made, to waitTaskFinish, with request
\* {taskId, sessionId}: taskId of the phase-one result, sessionId of the
\* phase-one result or, when it carries none, the scope's; the caller gets the
\* phase-two result.
C3_SyncWaitsOnce ==
    \A c \in ResolvedSyncCalls :
        IsTask(calls[c].task) =>
            /\ calls[c].pc \in {"phase2", "done"}
            /\ Len(calls[c].rpcs) = 2
            /\ calls[c].rpcs[2].set = "malice"
            /\ calls[c].rpcs[2].name = <<"waitTaskFinish">>
            /\ calls[c].rpcs[2].request.taskId = calls[c].task.taskId
            /\ calls[c].rpcs[2].request.sessionId =
                   (IF IsSome(CarriedSessionId(calls[c].task))
                    THEN Val(CarriedSessionId(calls[c].task))
                    ELSE Scopes[calls[c].scope].sessionId)
            /\ (calls[c].pc = "done" /\ calls[c].waited # NoResult) =>
                   calls[c].ret = RetValue(calls[c].waited)
            /\ (calls[c].pc = "done" /\ calls[c].waited = NoResult) =>
                   calls[c].ret = RetThrow(calls[c].failure)

\* a finished sync_ call on scope s2 whose task carried no session identifier
C3_Witness ==
    /\ calls["c1"].via = "session" /\ calls["c1"].sync
    /\ calls["c1"].pc = "done"
    /\ calls["c1"].task = Result("object", TRUE, Some(7), None)
    /\ Scopes[calls["c1"].scope].sessionId = "s2"
    /\ calls["c1"].rpcs[2].request = Request("wait", Some(7), "s2")
    /\ calls["c1"].ret = RetValue(Result("context", FALSE, None, None))

\* C4: in a sync_ call whose phase-one result has no taskId field (null and
\* non-object results included) the caller gets exactly the phase-one result
\* and no call follows phase one: waitTaskFinish is not called.
C4_SyncWithoutTaskReturns ==
    \A c \in ResolvedSyncCalls :
        ~IsTask(calls[c].task) =>
            /\ calls[c].pc = "done"
            /\ calls[c].ret = RetValue(calls[c].task)
            /\ Len(calls[c].rpcs) = 1
            /\ calls[c].waited = NoResult

\* a finished sync_ call whose phase one resolved to null
C4_Witness ==
    /\ calls["c1"].via = "session" /\ calls["c1"].sync
    /\ calls["c1"].prop = <<"sync_", "ls">>
    /\ calls["c1"].pc = "done"
    /\ calls["c1"].task = Result("null", FALSE, None, None)
    /\ calls["c1"].ret = RetValue(Result("null", FALSE, None, None))

\* the name a scope asks the dispatcher for: X for sync_X, else the name itself
ActualMethod(p) == IF StartsWith(p, "sync_") THEN Tail(p) ELSE p
\* the dispatcher does not expose the name: neither capability set defines it
\* and it is not a member of the dispatcher
Unexposed(p) == ~InMalice(p) /\ ~InListener(p) /\ ~InTarget(p)

\* C15: for every name the dispatcher does not expose, reading it on a scope
\* bound to that dispatcher yields undefined and throws nothing, for plain
\* names and for sync_X names whose X is not exposed.
C15_UnexposedYieldsUndefined ==
    \A c \in SessionCalls :
        (/\ Scopes[calls[c].scope].hasClient
         /\ calls[c].prop \notin ReservedAccessors
         /\ Unexposed(calls[c].prop)
         /\ Unexposed(ActualMethod(calls[c].prop)))
        => /\ calls[c].ret.kind = "undefined"
           /\ calls[c].rpcs = <<>>

\* C16: on a scope whose dispatcher is absent, resolving a name that is not a
\* reserved accessor throws the error "Session client is not initialized",
\* which mentions the name; it yields neither undefined nor a callable, and it
\* is not the TypeError of a read on null.  (For every Session class of the
\* repository.)
C16_AbsentClientThrowsNamedError ==
    \A c \in SessionCalls \cup LegacyCalls :
        (~Scopes[calls[c].scope].hasClient /\ calls[c].prop \notin ReservedAccessors) =>
            /\ calls[c].pc = "done"
            /\ calls[c].ret.kind = "throw"
            /\ Contains(calls[c].ret.err, <<"Session", "client", "is", "not", "initialized.">>)
            /\ Contains(calls[c].ret.err, calls[c].prop)
            /\ calls[c].handed = <<>>

\* C17: reading a reserved accessor of a scope (sessionInfo, sessionId,
\* getSessionId) gives data of the scope itself, the identifier it holds, and
\* does not touch the dispatcher: no property of the dispatcher is read, nothing
\* is handed to it and no capability method is called; also on a scope whose
\* dispatcher is absent, and when the dispatcher has a method of that name.
C17_AccessorsAreLocal ==
    \A c \in SessionCalls :
        calls[c].prop \in ReservedAccessors =>
            /\ calls[c].pc = "done"
            /\ calls[c].ret.kind = "accessor"
            /\ calls[c].ret.val.sessionId = Some(Scopes[calls[c].scope].sessionId)
            /\ calls[c].lookups = <<>>
            /\ calls[c].handed = <<>>
            /\ calls[c].rpcs = <<>>

\* sessionId read on a scope whose dispatcher has a method named sessionId
C17_Witness ==
    /\ calls["c1"].via = "session"
    /\ calls["c1"].prop = <<"sessionId">>
    /\ InMalice(calls["c1"].prop)
    /\ Scopes[calls["c1"].scope] = [sessionId |-> "s2", hasClient |-> TRUE]
    /\ calls["c1"].ret = RetAccessor(Scopes[calls["c1"].scope], <<"sessionId">>)
    /\ calls["c1"].ret.val.sessionId = Some("s2")

\* getSessionId read on a scope whose dispatcher is absent
C17_WitnessAbsent ==
    /\ calls["c1"].via = "session"
    /\ calls["c1"].prop = <<"getSessionId">>
    /\ ~Scopes[calls["c1"].scope].hasClient
    /\ calls["c1"].ret.kind = "accessor"
    /\ calls["c1"].ret.val.kind = "closure"

\* the entries of the caller's headers, and of the configured defaults
CallerEntries(options) ==
    IF IsNone(options.headers) THEN <<>>
    ELSE IF Val(options.headers).isHeaders THEN HeadersEntries(Val(options.headers).h)
    ELSE Val(options.headers).obj
DefaultEntries(cfg) == IF IsNone(cfg.defaultHeaders) THEN <<>> ELSE Val(cfg.defaultHeaders)
\* the names of a sequence of entries
KeysOf(entries) == {entries[i][1] : i \in 1..Len(entries)}
\* the names a Headers instance holds
HeaderNames(h) == {k \in DOMAIN h : IsSome(h[k])}

\* C19: the headers that reach the capability method in a call through a scope
\* are the three-layer merge defaults, then caller, then session_id: session_id
\* is the scope's identifier whatever the defaults and the caller define under
\* it, every other caller entry is there with the caller's value, every other
\* default entry the caller did not supply is there with the default's value,
\* and there is nothing else.  (Names other than session_id are compared
\* without regard to case here, so that only the layering is at stake.)
C19_ThreeLayerMerge ==
    \A c \in SessionCalls : \A i \in 1..Len(calls[c].rpcs) :
        LET merged == calls[c].rpcs[i].options.headers
            caller == CallerEntries(calls[c].options)
            dflt == DefaultEntries(config)
        IN  /\ merged["session_id"] = Some(Scopes[calls[c].scope].sessionId)
            /\ \A j \in 1..Len(caller) :
                   Lower(caller[j][1]) # "session_id" =>
                       merged[Lower(caller[j][1])] = Some(caller[j][2])
            /\ \A j \in 1..Len(dflt) :
                   (/\ Lower(dflt[j][1]) # "session_id"
                    /\ Lower(dflt[j][1]) \notin {Lower(k) : k \in KeysOf(caller)}) =>
                       merged[Lower(dflt[j][1])] = Some(dflt[j][2])
            /\ HeaderNames(merged) =
                   {"session_id"} \cup {Lower(k) : k \in KeysOf(caller) \cup KeysOf(dflt)}

\* headers.get(name) on the merged mapping
MergedGet(merged, name) == merged[Lower(name)]

\* C20: the dispatcher's merge matches names case-sensitively: when a default
\* name and a caller's name differ only in letter case, the merged mapping has
\* both, each with its own value: two entries, neither value in the place of
\* the other.
C20_MergeIsCaseSensitive ==
    \A c \in DispatcherCalls : \A i \in 1..Len(calls[c].rpcs) :
        LET merged == calls[c].rpcs[i].options.headers
            caller == ObjectEntries(IF IsNone(calls[c].options.headers)
                                    THEN PlainInit(<<>>) ELSE Val(calls[c].options.headers))
            dflt == DefaultEntries(config)
        IN  \A j \in 1..Len(dflt), k \in 1..Len(caller) :
                   (dflt[j][1] # caller[k][1] /\ Lower(dflt[j][1]) = Lower(caller[k][1])) =>
                       /\ MergedGet(merged, dflt[j][1]) = Some(dflt[j][2])
                       /\ MergedGet(merged, caller[k][1]) = Some(caller[k][2])
                       /\ Cardinality(HeaderNames(merged)) >=
                              Cardinality({dflt[j][1], caller[k][1]})

\* C21: the merged options carry the configured default timeout exactly when
\* the caller specified no timeout and a default is configured; a timeout the
\* caller specified, whatever its value, is passed through unchanged; with no
\* default and none specified no timeout is set.
C21_DefaultTimeout ==
    \A c \in DispatcherCalls : \A i \in 1..Len(calls[c].rpcs) :
        LET merged == calls[c].rpcs[i].options.timeoutMs
            given == calls[c].options.timeoutMs
        IN  /\ IsSome(given) => merged = given
            /\ (IsNone(given) /\ IsSome(config.timeout)) => merged = config.timeout
            /\ (IsNone(given) /\ IsNone(config.timeout)) => merged = None

\* the own accessors of the dispatcher
OwnAccessors == {<<"getMaliceClient">>, <<"getListenerClient">>, <<"createCallOptions">>}

\* C22: reading an own accessor of the dispatcher (getMaliceClient,
\* getListenerClient, createCallOptions) gives the dispatcher's own member and
\* no forwarder: calling it reaches no capability method, also when a
\* capability set defines a method of that name.
C22_OwnAccessorsWin ==
    \A c \in DispatcherCalls :
        calls[c].prop \in OwnAccessors =>
            /\ DispatcherGet(calls[c].prop) = Resolution("own", "none", calls[c].prop)
            /\ calls[c].pc = "done"
            /\ calls[c].ret = RetLocal("own")
            /\ calls[c].rpcs = <<>>

\* createCallOptions, which the operator set defines too, called on the dispatcher
C22_Witness ==
    /\ calls["c1"].via = "dispatcher"
    /\ calls["c1"].prop = <<"createCallOptions">>
    /\ InMalice(calls["c1"].prop)
    /\ calls["c1"].ret = RetLocal("own")
    /\ Len(calls["c1"].handed) = 1

\* C23: a name that both capability sets define is invoked on the operator
\* set and never on the listener set, in a call on the dispatcher and in a
\* call through a scope that has a dispatcher.
C23_OperatorSetFirst ==
    \A c \in DispatcherCalls \cup SessionCalls :
        LET name == IF calls[c].via = "session" THEN ActualMethod(calls[c].prop)
                    ELSE calls[c].prop
        IN  (/\ InMalice(name) /\ InListener(name)
             /\ ~InTarget(name) /\ ~StartsWith(name, "_")
             /\ calls[c].via = "session" => Scopes[calls[c].scope].hasClient) =>
                /\ Len(calls[c].rpcs) >= 1
                /\ calls[c].rpcs[1].name = name
                /\ calls[c].rpcs[1].set = "malice"
                /\ \A i \in 1..Len(calls[c].rpcs) : calls[c].rpcs[i].set # "listener"

\* a finished call of the name of both sets on the dispatcher
C23_Witness ==
    /\ calls["c1"].via = "dispatcher"
    /\ calls["c1"].prop = <<"both">>
    /\ InMalice(<<"both">>) /\ InListener(<<"both">>)
    /\ calls["c1"].pc = "done" /\ calls["c1"].ret.kind = "value"
    /\ calls["c1"].rpcs[1].set = "malice"

\* C25: a sync_ call that reaches phase two hands waitTaskFinish the header
\* mapping it handed phase one (session_id included), and as timeout the
\* caller's when the caller supplied one, else 60000.
C25_PhaseTwoOptions ==
    \A c \in SessionCalls \cup LegacyCalls :
        Len(calls[c].handed) = 2 =>
            /\ calls[c].handed[2].options.headers = calls[c].handed[1].options.headers
            /\ HandedSessionId(calls[c].handed[2]) = Some(Scopes[calls[c].scope].sessionId)
            /\ calls[c].handed[2].options.timeoutMs =
                   (IF IsSome(calls[c].options.timeoutMs)
                    THEN calls[c].options.timeoutMs ELSE Some(WaitTimeoutDefault))

\* C27: no remote operation is invoked again: a call makes at most one
\* invocation in phase one and at most one in phase two, and a call whose
\* remote operation failed has ended by throwing that same failure.
C27_NeverRetries ==
    \A c \in SessionCalls \cup LegacyCalls \cup DispatcherCalls :
        /\ Len(calls[c].rpcs) <= (IF calls[c].sync THEN 2 ELSE 1)
        /\ Len(calls[c].rpcs) = 2 =>
               /\ calls[c].rpcs[1].name = ActualMethod(calls[c].prop)
               /\ calls[c].rpcs[2].name = <<"waitTaskFinish">>
        /\ calls[c].failure # <<>> =>
               /\ calls[c].pc = "done"
               /\ calls[c].ret = RetThrow(calls[c].failure)

\* a sync_ call whose phase two timed out, ended with that timeout
C27_Witness ==
    /\ calls["c1"].via = "session" /\ calls["c1"].sync
    /\ Len(calls["c1"].rpcs) = 2
    /\ calls["c1"].failure = DeadlineExceeded
    /\ calls["c1"].ret = RetThrow(DeadlineExceeded)

\* a plain call through the dispatcher whose operation failed, ended with that failure
C27_WitnessPlain ==
    /\ calls["c1"].via = "dispatcher"
    /\ Len(calls["c1"].rpcs) = 1
    /\ calls["c1"].failure = RpcFailed
    /\ calls["c1"].ret = RetThrow(RpcFailed)

\* C30: phase two is dispatched only after phase one has returned a task:
\* while phase one is in flight there is one invocation and no result, the
\* second invocation exists only with a phase-one result that is a task, and a
\* call whose phase one failed ends with the one invocation it made.
C30_PhaseTwoAfterPhaseOne ==
    \A c \in SessionCalls \cup LegacyCalls :
        /\ calls[c].pc = "phase1" =>
               Len(calls[c].rpcs) = 1 /\ calls[c].task = NoResult
        /\ calls[c].pc = "phase2" =>
               Len(calls[c].rpcs) = 2 /\ calls[c].waited = NoResult
        /\ Len(calls[c].rpcs) = 2 =>
               IsTask(calls[c].task) /\ calls[c].pc \in {"phase2", "done"}
        /\ (calls[c].failure # <<>> /\ calls[c].task = NoResult) =>
               Len(calls[c].rpcs) = 1 /\ calls[c].pc = "done"

\* a sync_ call whose phase one timed out: one invocation, no waitTaskFinish
C30_Witness ==
    /\ calls["c1"].via = "session" /\ calls["c1"].sync
    /\ calls["c1"].failure = DeadlineExceeded
    /\ calls["c1"].task = NoResult
    /\ Len(calls["c1"].rpcs) = 1
    /\ calls["c1"].pc = "done"

\* a sync_ call waiting in phase two after phase one returned a task
C30_WitnessWaiting ==
    /\ calls["c1"].via = "session" /\ calls["c1"].sync
    /\ calls["c1"].pc = "phase2"
    /\ IsTask(calls["c1"].task)
    /\ Len(calls["c1"].rpcs) = 2

\* C26: two sync_ calls with identical arguments through one scope, in any
\* interleaving whose phase ones both returned a task: each call made its own
\* phase-one and its own phase-two invocation (four in all), each phase-two
\* request names the task of that call's phase one, and each caller gets what
\* waitTaskFinish resolved to for its own task.
C26_ConcurrentSyncCalls ==
    LET a == calls["c1"]
        b == calls["c2"]
    IN  (/\ a.via = "session" /\ b.via = "session" /\ a.sync /\ b.sync
         /\ a.scope = b.scope /\ a.prop = b.prop
         /\ a.request = b.request /\ a.options = b.options
         /\ IsTask(a.task) /\ IsTask(b.task)) =>
            /\ Len(a.rpcs) + Len(b.rpcs) = 4
            /\ a.rpcs[1] = b.rpcs[1]
            /\ \A c \in Callers :
                   /\ calls[c].rpcs[2].name = <<"waitTaskFinish">>
                   /\ calls[c].rpcs[2].request.taskId = calls[c].task.taskId
                   /\ (calls[c].pc = "done" /\ calls[c].failure = <<>>) =>
                          calls[c].ret = RetValue(ContextOf(calls[c].task.taskId))

\* both calls finished, with different tasks and each with its own context
C26_Witness ==
    /\ calls["c1"].via = "session" /\ calls["c2"].via = "session"
    /\ calls["c1"].prop = <<"sync_", "ls">> /\ calls["c2"].prop = <<"sync_", "ls">>
    /\ calls["c1"].scope = calls["c2"].scope
    /\ calls["c1"].options = calls["c2"].options
    /\ calls["c1"].ret = RetValue(ContextOf(Some(8)))
    /\ calls["c2"].ret = RetValue(ContextOf(Some(7)))

\* the second call's phase one still in flight while the first waits in phase two
C26_WitnessInterleaved ==
    /\ calls["c1"].via = "session" /\ calls["c2"].via = "session"
    /\ calls["c1"].prop = <<"sync_", "ls">> /\ calls["c2"].prop = <<"sync_", "ls">>
    /\ calls["c1"].scope = calls["c2"].scope
    /\ calls["c1"].pc = "phase2" /\ calls["c2"].pc = "phase1"

\* C24: a client whose configuration lacks what its transport requires (the
\* TLS material for the native transport, the base URL for the web transport)
\* is never constructed: its constructor threw, and no remote call was made
\* on it.
C24_ConstructionFails ==
    built.state # "none" =>
        LET native == built.variant = "node" /\ built.cfg.transport = Some("grpc")
            missing == IF native
                       THEN IsNone(built.cfg.auth) \/ ~Val(built.cfg.auth).tls
                       ELSE IsNone(built.cfg.baseUrl)
        IN  missing => built.state = "threw" /\ built.call = "none"

\* the value of header k a call is to carry: the caller's when the caller gave
\* one, else the configured default's, else none
OwnHeader(call, k) ==
    LET given == IF IsNone(call.options.headers) THEN <<>>
                 ELSE ObjectEntries(Val(call.options.headers))
        dflt == IF IsNone(config.defaultHeaders) THEN <<>> ELSE Val(config.defaultHeaders)
    IN  IF \E i \in 1..Len(given) : Lower(given[i][1]) = k
        THEN HeadersSetAll(EmptyHeaders, given)[k]
        ELSE HeadersSetAll(EmptyHeaders, dflt)[k]

\* C31: two calls through scopes with different identifiers over one
\* dispatcher, in any interleaving: every invocation of either call (phase
\* one and phase two) carries as session_id the identifier of the scope of its
\* own call, and as x-a the header of its own caller, never the other call's.
C31_NoInterference ==
    LET a == calls["c1"]
        b == calls["c2"]
    IN  (/\ a.via = "session" /\ b.via = "session"
         /\ Scopes[a.scope].sessionId # Scopes[b.scope].sessionId) =>
            \A c \in Callers : \A i \in 1..Len(calls[c].rpcs) :
                LET carried == calls[c].rpcs[i].options.headers
                IN  /\ carried["session_id"] = Some(Scopes[calls[c].scope].sessionId)
                    /\ carried["x-a"] = OwnHeader(calls[c], "x-a")

\* the call on s1 waits in phase two with its own header while the call on s2,
\* made with another header, is in phase one
C31_Witness ==
    /\ calls["c1"].via = "session" /\ calls["c2"].via = "session"
    /\ Scopes[calls["c1"].scope].sessionId = "s1"
    /\ Scopes[calls["c2"].scope].sessionId = "s2"
    /\ calls["c1"].pc = "phase2" /\ calls["c2"].pc = "phase1"
    /\ calls["c1"].rpcs[2].options.headers["x-a"] = Some("one")
    /\ calls["c2"].rpcs[1].options.headers["x-a"] = Some("two")

\* C38: a call through a Session leaves the caller's arguments unchanged: once
\* the closure of a plain or sync_ call has run, and in every later phase of
\* the call, the caller's options object and its headers (plain object or
\* Headers instance) have exactly the entries they were given with, so no
\* session_id entry was added to or changed in them, and the request handed to
\* the dispatcher and to the capability set in phase one is the caller's.
C38_ArgumentsUnchanged ==
    \A c \in SessionCalls :
        Len(calls[c].handed) > 0 =>
            /\ calls[c].objects.options = calls[c].options
            /\ calls[c].objects.request = calls[c].request
            /\ calls[c].handed[1].request = calls[c].request
            /\ \A i \in 1..Len(calls[c].rpcs) :
                   i = 1 => calls[c].rpcs[i].request = calls[c].request

\* a finished sync_ call that waited, whose caller gave a Headers instance
\* without a session_id entry
C38_Witness ==
    /\ calls["c1"].via = "session" /\ calls["c1"].sync
    /\ calls["c1"].pc = "done"
    /\ Len(calls["c1"].rpcs) = 2
    /\ IsSome(calls["c1"].options.headers)
    /\ Val(calls["c1"].options.headers).isHeaders
    /\ Val(calls["c1"].options.headers).h["session_id"] = None
    /\ Val(calls["c1"].options.headers).h["x-a"] # None
    /\ calls["c1"].objects.options = calls["c1"].options

\* a plain call whose caller gave a plain object with its own session_id entry
C38_WitnessPlain ==
    /\ calls["c1"].via = "session" /\ ~calls["c1"].sync
    /\ calls["c1"].pc = "phase1"
    /\ Len(calls["c1"].rpcs) = 1
    /\ IsSome(calls["c1"].options.headers)
    /\ ~Val(calls["c1"].options.headers).isHeaders
    /\ ObjGet(Val(calls["c1"].options.headers).obj, "session_id") = Some("evil")
    /\ Scopes[calls["c1"].scope].sessionId = "s2"
    /\ calls["c1"].objects.options = calls["c1"].options

\* C33: the logging hook never alters control flow: for every method name and
\* options, a call on a dispatcher with a hook, returning or failing, chooses
\* the capability set, merges the options and is made or throws exactly as the
\* call on a dispatcher without a hook does; and the hook is given one message
\* for every call that was routed to a capability set.
C33_HookNeverAltersControlFlow ==
    (logging.state = "constructed" /\ logging.call.pc # "idle") =>
        /\ logging.call = DispatcherStart(config, logging.call.prop, logging.call.request,
                                          logging.call.options)
        /\ (logging.hook # "none" /\ DispatcherGet(logging.call.prop).kind = "forward")
               => Len(logging.messages) = 1

(***************************************************************************)
(* Properties of the registry (checked under SpecRegistry).                *)
(***************************************************************************)
\* C18: the identifier bound to a scope never changes: after any sequence of
\* calls through it, reads of its accessors, uses of the descriptor object
\* that sessionInfo returns, and registry operations, the sessionId of every
\* scope is the identifier it was constructed with, and so is what a read of
\* sessionId or getSessionId() gives and the session_id a call injects.
C18_SessionIdNeverChanges ==
    /\ \A i \in InstanceIds : ScopeSessionId(heap, instances, i) = instances[i].bound
    /\ observed.kind \in {"read", "call"} =>
           observed.sessionId = instances[observed.scope].bound

\* C28: the registry caches scopes: getSession(id) returns the scope stored
\* under id when there is one and leaves the registry as it is; when there is
\* none it returns a scope made by that call and stores it. A stored scope is
\* replaced by nothing but its eviction by removeSession(id) or
\* clearSessions(), so the first getSession(id) after an eviction makes a new
\* scope.
C28_RegistryCaches ==
    [][\A id \in SessionIds :
          /\ GetSession(id) =>
                 LET got == getSession(heap, instances, sessions, sessionInfos, id)
                 IN  /\ sessions'[id] = got.returned
                     /\ IF sessions[id] # NoEntry
                        THEN /\ got.returned = sessions[id]
                             /\ instances' = instances /\ sessions' = sessions
                        ELSE /\ got.returned = Len(instances) + 1
                             /\ Len(instances') = Len(instances) + 1
                             /\ \A k \in SessionIds \ {id} : sessions'[k] = sessions[k]
          /\ (sessions[id] # NoEntry /\ sessions'[id] # sessions[id]) =>
                 /\ sessions'[id] = NoEntry
                 /\ RemoveSession(id) \/ ClearSessions
          /\ (RemoveSession(id) \/ ClearSessions) => sessions'[id] = NoEntry
      ]_vars

\* the scope stored under s1 is the second one made for s1: the first was evicted
C28_Witness ==
    /\ Len(instances) = 2
    /\ instances[1].bound = "s1" /\ instances[2].bound = "s1"
    /\ instances[1].info # instances[2].info
    /\ ~heap[instances[1].info].held /\ ~heap[instances[2].info].held
    /\ sessions["s1"] = 2

\* the sequences of descriptors updateSessions is called with
UpdateArgs ==
    {<<o>> : o \in HeldObjects} \cup
    {<<o, q>> : o \in HeldObjects, q \in HeldObjects}
\* the last descriptor of objs whose sessionId is k, NoEntry when there is none
LastFor(objs, k) ==
    LET at == {i \in 1..Len(objs) : heap[objs[i]].sessionId = k}
    IN  IF at = {} THEN NoEntry
        ELSE objs[CHOOSE i \in at : \A j \in at : j <= i]

\* C29: updateSessions stores, under every identifier that occurs in its
\* argument, the descriptor object given (the last one given for that
\* identifier), whatever was stored before: no field of the old descriptor is
\* carried over, no descriptor object is changed; every other identifier keeps
\* what it had.
C29_UpdateReplaces ==
    [][(sessionInfos' # sessionInfos /\ listing' = listing) =>
           \A objs \in UpdateArgs :
               UpdateSessions(objs) =>
                   /\ heap' = heap
                   /\ \A k \in SessionIds :
                          IF LastFor(objs, k) # NoEntry
                          THEN /\ sessionInfos'[k] = LastFor(objs, k)
                               /\ heap'[sessionInfos'[k]].name = heap[LastFor(objs, k)].name
                          ELSE sessionInfos'[k] = sessionInfos[k]
      ]_vars

\* s1 was stored with a name and is now stored without one
C29_Witness ==
    /\ heap[1] = Descriptor("s1", Some("alpha"), TRUE)
    /\ heap[2] = Descriptor("s1", None, TRUE)
    /\ sessionInfos["s1"] = 2

\* C32: every operation of the registry is applied in one step, so that no
\* other caller sees it half done: a step that takes a scope out of the cache
\* takes its descriptor out too, clearSessions leaves both caches empty, a
\* getSession that makes a scope has it cached, with its descriptor, at the
\* end of the same step, and the update step of list stores the whole
\* response.
C32_OperationsAtomic ==
    [][/\ \A id \in SessionIds :
             /\ (sessions[id] # NoEntry /\ sessions'[id] = NoEntry) =>
                    sessionInfos'[id] = NoEntry
             /\ RemoveSession(id) =>
                    sessions'[id] = NoEntry /\ sessionInfos'[id] = NoEntry
             /\ (GetSession(id) /\ sessions[id] = NoEntry) =>
                    /\ sessions'[id] = Len(instances')
                    /\ heap'[instances'[sessions'[id]].info].alloc
                    /\ ScopeSessionId(heap', instances', sessions'[id]) = id
       /\ ClearSessions => (sessions' = EmptyMap /\ sessionInfos' = EmptyMap)
       /\ \A response \in ListResponses :
             (ListCompletes(response) /\ IsSome(response)) =>
                 \A i \in 1..Len(Val(response)) :
                     /\ sessionInfos'[Val(response)[i][1]] # NoEntry
                     /\ heap'[sessionInfos'[Val(response)[i][1]]].sessionId = Val(response)[i][1]
      ]_vars

\* s1 has been removed while s2 is cached: s1 has neither scope nor descriptor
C32_Witness ==
    /\ Len(instances) = 2
    /\ instances[1].bound = "s1"
    /\ sessions["s1"] = NoEntry /\ sessionInfos["s1"] = NoEntry
    /\ sessions["s2"] = 2 /\ sessionInfos["s2"] # NoEntry

C37_RejectedTaskHasNoEffect ==
    [][\A name \in TaskNames, id \in SessionIds :
          (ExecuteTask(name, id) /\ IsNone(TaskMethod(name))) =>
              /\ observed'.kind = "unsupported"
              /\ sessions' = sessions /\ sessionInfos' = sessionInfos
              /\ instances' = instances /\ heap' = heap
      ]_vars

\* C35: a cached scope keeps the descriptor it was made with: a step that
\* stores another descriptor for the identifier (updateSessions, or the update
\* step of list) changes the descriptor cache and neither the cached scope,
\* nor the descriptor object it refers to; and getSession goes on returning
\* that scope, whatever descriptor is stored for the identifier by then.
C35_CachedScopeKeepsDescriptor ==
    [][\A id \in SessionIds :
          sessions[id] # NoEntry =>
              LET i == sessions[id]
              IN  /\ (sessionInfos'[id] # sessionInfos[id] /\ sessionInfos'[id] # NoEntry) =>
                         /\ sessions'[id] = i
                         /\ instances'[i] = instances[i]
                         /\ heap'[instances[i].info] = heap[instances[i].info]
                  /\ sessions'[id] = i => instances'[i].info = instances[i].info
                  /\ GetSession(id) =>
                         /\ getSession(heap, instances, sessions, sessionInfos, id).returned = i
                         /\ sessions'[id] = i /\ instances' = instances
      ]_vars

\* the scope cached under s1 was made without a name; the descriptor stored
\* for s1 since is another object, with a name
C35_Witness ==
    /\ sessions["s1"] # NoEntry /\ sessionInfos["s1"] # NoEntry
    /\ instances[sessions["s1"]].info # sessionInfos["s1"]
    /\ heap[instances[sessions["s1"]].info].name = None
    /\ heap[sessionInfos["s1"]].name = Some("alpha")

\* C36: a removal made while list() is suspended is preserved when list()
\* completes: an identifier removed since list() began, and not asked for or
\* updated since, has neither a cached scope nor a cached descriptor after the
\* step that completes list().
C36_RemovalPreserved ==
    [][listing' < listing =>
           \A id \in removed :
               sessions'[id] = NoEntry /\ sessionInfos'[id] = NoEntry
      ]_vars

(***************************************************************************)
(* Properties of the decoder (checked under SpecDecode).                   *)
(***************************************************************************)
\* the text a field carries: undefined carries none
TextOf(o) == IF IsNone(o) THEN <<>> ELSE Val(o)

HasSpite == IsSome(taskContext) /\ IsSome(Val(taskContext).spite)
TheSpite == Val(Val(taskContext).spite)
OuterCode == OrZero(TheSpite.error)
HasStatus == IsSome(TheSpite.status)
TheStatus == Val(TheSpite.status)
InnerCode == OrZero(TheStatus.status)
\* the outcomes of the entry points that have run
Outcomes == {Val(o) : o \in {x \in {outGet, outParse} : IsSome(x)}}

\* Taxonomy A/B as the specification states it: the envelope is a failure when
\* its outer code is not None, except TaskError with an inner status None
FailedEnvelope ==
    /\ HasSpite
    /\ OuterCode # MaleficError_None
    /\ (OuterCode = MaleficError_TaskError => (~HasStatus \/ InnerCode # TaskError_None))

\* the body holds a "response" variant with a value
HasResponse ==
    /\ IsSome(TheSpite.body)
    /\ Val(TheSpite.body).case = "response"
    /\ IsSome(Val(TheSpite.body).value)
TheResponse == Val(Val(TheSpite.body).value)

\* C5: for a Task Context whose envelope is a Taxonomy A/B failure, neither
\* getOutputFromTaskContext nor parseTaskContext returns: each throws, and no
\* output, error text or response of the body reaches the caller.
C5_FailedEnvelopeNeverReturns ==
    FailedEnvelope =>
        \A o \in Outcomes :
            /\ o.threw
            /\ o.err.message # <<>>
            /\ o.output = <<>> /\ o.error = <<>> /\ IsNone(o.response)

C5_Witness ==
    /\ FailedEnvelope
    /\ IsSome(outGet) /\ IsSome(outParse)
    /\ HasResponse
    /\ TextOf(TheResponse.output) = <<"ok">>

\* C6: an envelope with outer code TaskError and a status whose code is one of
\* OperatorError .. TaskError (1..6) makes decoding throw an error whose message
\* contains the status's error text verbatim and whose code is the status code.
C6_TaskErrorCarriesTextAndCode ==
    (/\ HasSpite
     /\ OuterCode = MaleficError_TaskError
     /\ HasStatus
     /\ InnerCode \in TaskError_OperatorError..TaskError_TaskError)
    => \A o \in Outcomes :
            /\ o.threw
            /\ Contains(o.err.message, TextOf(TheStatus.error))
            /\ o.err.code = Some(InnerCode)

C6_Witness ==
    /\ HasSpite /\ OuterCode = MaleficError_TaskError /\ HasStatus
    /\ InnerCode = TaskError_FieldRequired
    /\ TheStatus.error = Some(<<"path", "required">>)
    /\ IsSome(outParse) /\ Val(outParse).threw
    /\ Val(outParse).err.message = <<"task", "error:", "path", "required">>
    /\ IsSome(outGet)

\* C7: an envelope with outer code TaskError and no status object makes
\* decoding throw a "nil status" error; no value is returned.
C7_NilStatusThrows ==
    (HasSpite /\ OuterCode = MaleficError_TaskError /\ ~HasStatus)
    => \A o \in Outcomes :
            /\ o.threw
            /\ Contains(o.err.message, <<"nil", "status">>)

C7_Witness ==
    /\ HasSpite /\ OuterCode = MaleficError_TaskError /\ ~HasStatus
    /\ IsSome(outGet) /\ IsSome(outParse)
    /\ IsSome(TheSpite.body)

\* C8 (as claimed): decoding an absent Task Context throws "nil task context",
\* decoding a context with an absent envelope throws "nil spite in task
\* context", and neither returns a value; this is stated of both entry points.
C8_NilContextThrows ==
    \A o \in Outcomes :
        /\ IsNone(taskContext) =>
               o.threw /\ o.err.message = <<"nil", "task", "context">>
        /\ (IsSome(taskContext) /\ IsNone(Val(taskContext).spite)) =>
               o.threw /\ o.err.message = <<"nil", "spite", "in", "task", "context">>

\* C9 (as claimed): the two entry points agree on every Task Context: one
\* throws iff the other does, with the same message and code, and when neither
\* throws the output strings are equal.
C9_EntryPointsAgree ==
    (IsSome(outGet) /\ IsSome(outParse)) =>
        /\ Val(outGet).threw = Val(outParse).threw
        /\ Val(outGet).err = Val(outParse).err
        /\ Val(outGet).output = Val(outParse).output

\* C10: an envelope with outer code None is decoded without throwing; with a
\* "response" variant in the body the output and error returned are that
\* response's strings (and the response is returned), otherwise the response
\* is null and output and error are empty.
C10_NoneDecodesBody ==
    (HasSpite /\ OuterCode = MaleficError_None) =>
        /\ \A o \in Outcomes : ~o.threw
        /\ IsSome(outParse) =>
              IF HasResponse
              THEN /\ Val(outParse).output = TextOf(TheResponse.output)
                   /\ Val(outParse).error = TextOf(TheResponse.error)
                   /\ Val(outParse).response = Some(TheResponse)
              ELSE /\ Val(outParse).output = <<>>
                   /\ Val(outParse).error = <<>>
                   /\ IsNone(Val(outParse).response)
        /\ IsSome(outGet) =>
              Val(outGet).output = (IF HasResponse THEN TextOf(TheResponse.output) ELSE <<>>)

C10_Witness ==
    /\ HasSpite /\ OuterCode = MaleficError_None
    /\ HasResponse
    /\ TheResponse = [output |-> Some(<<"ok">>), error |-> Some(<<>>)]
    /\ IsSome(outParse) /\ Val(outParse).output = <<"ok">>
    /\ IsSome(outGet) /\ Val(outGet).output = <<"ok">>

\* a body of another variant that carries a value: the case C10's second half is about
C10_WitnessOther ==
    /\ HasSpite /\ OuterCode = MaleficError_None
    /\ IsSome(TheSpite.body) /\ Val(TheSpite.body).case = "other"
    /\ IsSome(Val(TheSpite.body).value)
    /\ IsSome(outParse) /\ IsNone(Val(outParse).response)

\* C11: an envelope with outer code None and a non-empty body.response.error
\* string is decoded as a success: no entry point throws, and parseTaskContext
\* returns the string unchanged in the error field (with the response it came from).
C11_AppErrorIsSuccess ==
    (/\ HasSpite /\ OuterCode = MaleficError_None
     /\ HasResponse /\ TextOf(TheResponse.error) # <<>>)
    => /\ \A o \in Outcomes : ~o.threw
       /\ IsSome(outParse) =>
              /\ Val(outParse).error = Val(TheResponse.error)
              /\ Val(outParse).response = Some(TheResponse)

C11_Witness ==
    /\ HasSpite /\ OuterCode = MaleficError_None /\ HasResponse
    /\ TheResponse.error = Some(<<"denied">>)
    /\ IsSome(outGet)
    /\ IsSome(outParse) /\ Val(outParse).error = <<"denied">>

\* the outer codes that have a fixed message of their own
FixedCodes ==
    { MaleficError_Panic, MaleficError_UnpackError, MaleficError_Missbody,
      MaleficError_ModuleError, MaleficError_ModuleNotFound, MaleficError_TaskNotFound,
      MaleficError_TaskOperatorNotFound, MaleficError_ExtensionNotFound,
      MaleficError_UnexceptBody }
\* the messages Taxonomy B can give
TaskErrorMessages ==
    {Val(handleTaskError(st)).message :
        st \in {x \in Opt(Statuses) : IsSome(handleTaskError(x))}}

\* C12: Taxonomy A.  Outer code None gives no error; each of the nine codes with
\* a message of their own gives an error with that fixed message, which no other
\* code gives (neither another fixed code, nor an unrecognized one, nor
\* TaskError through Taxonomy B), and with the outer code as its code; an
\* integer outside the taxonomy gives an "unknown" error whose message and code
\* carry that integer.
C12_TaxonomyA ==
    HasSpite => \A o \in Outcomes :
        /\ OuterCode = MaleficError_None => ~o.threw
        /\ OuterCode \in FixedCodes =>
              /\ o.threw
              /\ o.err.code = Some(OuterCode)
              /\ o.err.message = MaleficMessage(OuterCode)
              /\ \A j \in (Codes \ {MaleficError_None, MaleficError_TaskError, OuterCode}) :
                     MaleficMessage(j) # o.err.message
              /\ o.err.message \notin TaskErrorMessages
        /\ OuterCode > MaleficError_UnexceptBody =>
              /\ o.threw
              /\ o.err.code = Some(OuterCode)
              /\ Contains(o.err.message, <<"unknown">>)
              /\ Contains(o.err.message, <<NumStr(OuterCode)>>)

\* a "miss body" envelope with a status and a body, decoded by both entry points
C12_Witness ==
    /\ HasSpite /\ OuterCode = MaleficError_Missbody
    /\ HasStatus /\ IsSome(TheSpite.body)
    /\ IsSome(outGet)
    /\ IsSome(outParse) /\ Val(outParse).err.message = <<"module", "miss", "body">>

\* an unrecognized outer code
C12_WitnessUnknown ==
    /\ HasSpite /\ OuterCode = MaleficError_UnexceptBody + 1
    /\ IsSome(outParse)
    /\ Val(outParse).err = SpiteError(<<"unknown", "Malefic", "error:", "11">>, Some(11))

\* C13 (as claimed), for the envelopes that carry a status only under outer code
\* TaskError: decoding returns without throwing only when the outer code is
\* None; every other envelope, those with outer code TaskError included, throws.
C13_OnlyNoneReturns ==
    (HasSpite /\ (HasStatus => OuterCode = MaleficError_TaskError)) =>
        \A o \in Outcomes : ~o.threw => OuterCode = MaleficError_None

\* C13 (amended): parseTaskContext returns without throwing exactly when the
\* context has an envelope whose outer code is None (whatever status it
\* carries) or whose outer code is TaskError with a status of code None; on
\* every context that has an envelope getOutputFromTaskContext throws exactly
\* when parseTaskContext does.
C13_NonThrowingPaths ==
    LET ok == /\ HasSpite
              /\ \/ OuterCode = MaleficError_None
                 \/ /\ OuterCode = MaleficError_TaskError
                    /\ HasStatus
                    /\ InnerCode = TaskError_None
    IN  /\ IsSome(outParse) => (~Val(outParse).threw <=> ok)
        /\ (IsSome(outGet) /\ HasSpite) => (~Val(outGet).threw <=> ok)

\* outer code TaskError with a status None, returned by both entry points
C13_Witness ==
    /\ HasSpite /\ OuterCode = MaleficError_TaskError
    /\ HasStatus /\ InnerCode = TaskError_None
    /\ HasResponse /\ TextOf(TheResponse.output) = <<"ok">>
    /\ IsSome(outGet) /\ ~Val(outGet).threw /\ Val(outGet).output = <<"ok">>
    /\ IsSome(outParse) /\ ~Val(outParse).threw

=============================================================================
